---------------------------- MODULE Spec2Model ----------------------------
(***************************************************************************)
(* State-machine model of the klipper-mcu firmware (src/klipper-mcu):      *)
(* cooperative scheduler, PWM, heater PID loop, stepper driver, endstops,  *)
(* motion front end (toolhead), TrapQ and the G-code dispatcher.           *)
(*                                                                         *)
(* Fixed-point conventions (the C code uses float/double):                 *)
(*   temperatures          0.1 degC   (the unit of s_ntc_table)            *)
(*   PID integral          0.01 degC*s                                     *)
(*   PID output / duty     1/1000                                          *)
(*   positions, distances  1 mm                                            *)
(*   sched_time_t          one count, reduced from 2^32 to 2^TimeBits      *)
(***************************************************************************)
EXTENDS Integers, Sequences, FiniteSets, TLC

(* ------------------------------ bounds -------------------------------- *)

\* width of the model's sched_time_t (uint32_t in the code)
TimeBits == 3

TimeMod == 2 ^ TimeBits

NULL == "NULL"

(* ===================== src/sched.c : time and timers =================== *)

Timers == {"endstop", "stepper", "pwm"}

\* t1 - t2 without the cast to a signed number of the counter's width
sched_time_diff_plain(t1, t2) == t1 - t2

\* (int32_t)(t1 - t2) on the reduced counter
sched_time_diff(t1, t2) ==
    LET d == (t1 - t2) % TimeMod
    IN  IF d >= TimeMod \div 2 THEN d - TimeMod ELSE d

\* sched_is_before(time): "time has been reached" at clock value t_now
sched_is_before(time, t_now) == sched_time_diff(time, t_now) <= 0

\* The walk of sched_add_timer over the linked list: returns the timer after
\* which the new one is linked (NULL: at the head), or "HANG" when the walk
\* does not end (the list holds a cycle).
RECURSIVE add_walk(_, _, _, _, _)
add_walk(S, timer, prev, cur, fuel) ==
    IF cur = NULL THEN prev
    ELSE IF sched_time_diff(S.waketime[timer], S.waketime[cur]) < 0 THEN prev
    ELSE IF fuel = 0 THEN "HANG"
    ELSE add_walk(S, timer, cur, S.next[cur], fuel - 1)

\* sched_add_timer(timer): sorted insertion, after timers with equal waketime
sched_add_timer(S, timer) ==
    LET prev == add_walk(S, timer, NULL, S.list, Cardinality(Timers))
    IN  IF prev = "HANG" THEN [S EXCEPT !.hung = TRUE]
        ELSE IF prev = NULL
             THEN [S EXCEPT !.next[timer] = S.list, !.list = timer]
             ELSE [S EXCEPT !.next[timer] = S.next[prev], !.next[prev] = timer]

\* The walk of sched_del_timer: the predecessor of timer, "NONE" when the
\* timer is not in the list, "HANG" when the walk does not end.
RECURSIVE del_walk(_, _, _, _, _)
del_walk(S, timer, prev, cur, fuel) ==
    IF cur = NULL THEN "NONE"
    ELSE IF cur = timer THEN prev
    ELSE IF fuel = 0 THEN "HANG"
    ELSE del_walk(S, timer, cur, S.next[cur], fuel - 1)

sched_del_timer(S, timer) ==
    LET prev == del_walk(S, timer, NULL, S.list, Cardinality(Timers))
    IN  IF prev = "HANG" THEN [S EXCEPT !.hung = TRUE]
        ELSE IF prev = "NONE" THEN S
        ELSE IF prev = NULL
             THEN [S EXCEPT !.list = S.next[timer], !.next[timer] = NULL]
             ELSE [S EXCEPT !.next[prev] = S.next[timer], !.next[timer] = NULL]

\* sched_init
sched_init ==
    [list |-> NULL,
     next |-> [t \in Timers |-> NULL],
     waketime |-> [t \in Timers |-> 0],
     hung |-> FALSE]

(* ========================= src/pwmcmds.c =============================== *)

PWM_CHANNEL_HEATER_HOTEND == "PWM_CHANNEL_HEATER_HOTEND"
PWM_CHANNEL_HEATER_BED    == "PWM_CHANNEL_HEATER_BED"
PWM_CHANNEL_FAN_PART      == "PWM_CHANNEL_FAN_PART"
PWM_CHANNEL_FAN_HOTEND    == "PWM_CHANNEL_FAN_HOTEND"

PwmChannels == {PWM_CHANNEL_HEATER_HOTEND, PWM_CHANNEL_HEATER_BED,
                PWM_CHANNEL_FAN_PART, PWM_CHANNEL_FAN_HOTEND}

PWM_MAX_VALUE == 255

\* pwm_init: clears every channel and the soft-PWM flag, resets s_pwm_timer
\* (its waketime and link) without taking it out of the timer list
pwm_init_channels ==
    [c \in PwmChannels |->
        [configured |-> 0, enabled |-> 0, value |-> 0,
         max_value |-> PWM_MAX_VALUE]]

pwm_init_timer(S) ==
    [S EXCEPT !.waketime["pwm"] = 0, !.next["pwm"] = NULL]

\* pwm_config(id, config)
pwm_config(P, id, max_value) ==
    [P EXCEPT ![id].configured = 1, ![id].max_value = max_value]

\* pwm_set_value(id, value)
pwm_set_value(P, id, value) ==
    [P EXCEPT ![id].value = IF value > P[id].max_value
                            THEN P[id].max_value ELSE value]

\* pwm_set_duty(id, duty): duty in 1/1000, truncated like the (uint16_t) cast
pwm_set_duty(P, id, duty) ==
    LET d == IF duty < 0 THEN 0 ELSE IF duty > 1000 THEN 1000 ELSE duty
    IN  pwm_set_value(P, id, (d * P[id].max_value) \div 1000)

\* pwm_enable(id, enable): the channel part
pwm_enable(P, id, enable) ==
    [P EXCEPT ![id].enabled = IF enable # 0 THEN 1 ELSE 0]

\* pwm_enable(id, enable): the soft-PWM timer part, on the pair
\* <<s_soft_pwm_enabled, scheduler state>>
pwm_enable_timer(soft, S, enable, t_now) ==
    IF enable # 0 /\ soft = 0
    THEN <<1, sched_add_timer(
                 [S EXCEPT !.waketime["pwm"] = (t_now + 1) % TimeMod], "pwm")>>
    ELSE <<soft, S>>

(* ========================= app/heater.c ================================ *)

HEATER_HOTEND == "HEATER_HOTEND"
HEATER_BED    == "HEATER_BED"
Heaters == {HEATER_HOTEND, HEATER_BED}

HEATER_TEMP_MIN == 0
HEATER_TEMP_MAX == 3000
HEATER_TEMP_INVALID == -9990
HEATER_TEMP_TOLERANCE == 30
ADC_MAX_VALUE == 4095
PID_INTEGRAL_MAX == 10000
PID_TARGET_CHANGE_THRESHOLD == 100

s_heater_pwm_channel ==
    [h \in Heaters |-> IF h = HEATER_HOTEND THEN PWM_CHANNEL_HEATER_HOTEND
                                            ELSE PWM_CHANNEL_HEATER_BED]

\* s_heater_config: max_power in 1/1000, the gains times 100
s_heater_config ==
    [h \in Heaters |->
        IF h = HEATER_HOTEND
        THEN [max_power |-> 1000, kp |-> 2220, ki |-> 108, kd |-> 11400]
        ELSE [max_power |-> 1000, kp |-> 5400, ki |-> 50,  kd |-> 20000]]

\* s_ntc_table: <<adc, temp*10>>
s_ntc_table ==
    << <<23, 3000>>, <<31, 2900>>, <<41, 2800>>, <<54, 2700>>, <<71, 2600>>,
       <<93, 2500>>, <<120, 2400>>, <<154, 2300>>, <<196, 2200>>,
       <<248, 2100>>, <<311, 2000>>, <<386, 1900>>, <<475, 1800>>,
       <<578, 1700>>, <<696, 1600>>, <<829, 1500>>, <<976, 1400>>,
       <<1136, 1300>>, <<1307, 1200>>, <<1486, 1100>>, <<1670, 1000>>,
       <<1855, 900>>, <<2037, 800>>, <<2213, 700>>, <<2379, 600>>,
       <<2534, 500>>, <<2676, 400>>, <<2804, 300>>, <<2918, 200>>,
       <<3018, 100>>, <<3105, 0>>, <<3180, -100>>, <<3244, -200>> >>

NTC_TABLE_SIZE == Len(s_ntc_table)

\* C-style truncating division (the float result cut to 0.1 degC)
TruncDiv(a, b) == IF a >= 0 THEN a \div b ELSE -((-a) \div b)

\* ntc_adc_to_temp(adc_value), result in 0.1 degC
ntc_adc_to_temp(adc_value) ==
    IF adc_value < 0 \/ adc_value > ADC_MAX_VALUE THEN HEATER_TEMP_INVALID
    ELSE IF adc_value < s_ntc_table[1][1] THEN HEATER_TEMP_MAX
    ELSE IF adc_value > s_ntc_table[NTC_TABLE_SIZE][1] THEN HEATER_TEMP_MIN
    ELSE LET i == CHOOSE k \in 1..(NTC_TABLE_SIZE - 1) :
                     /\ adc_value >= s_ntc_table[k][1]
                     /\ adc_value <= s_ntc_table[k + 1][1]
                     /\ \A j \in 1..(k - 1) :
                           ~(adc_value >= s_ntc_table[j][1] /\
                             adc_value <= s_ntc_table[j + 1][1])
             adc_low   == s_ntc_table[i][1]
             adc_high  == s_ntc_table[i + 1][1]
             temp_low  == s_ntc_table[i][2]
             temp_high == s_ntc_table[i + 1][2]
         IN  temp_low + TruncDiv((adc_value - adc_low) * (temp_high - temp_low),
                                 adc_high - adc_low)

\* heater_get_temp(id): the value returned for the ADC sample adc_value
heater_get_temp(adc_value) ==
    IF adc_value < 0 THEN HEATER_TEMP_INVALID ELSE ntc_adc_to_temp(adc_value)

\* heater_get_temp(id): its side effect on the heater's state
heater_get_temp_state(st, adc_value) ==
    LET temp == heater_get_temp(adc_value)
    IN  IF temp # HEATER_TEMP_INVALID THEN [st EXCEPT !.current_temp = temp]
                                      ELSE st

\* pid_update with its integral clamp left out
pid_no_clamp_integral(i) == i

\* the integral clamp of pid_update
pid_clamp_integral(i) ==
    IF i > PID_INTEGRAL_MAX THEN PID_INTEGRAL_MAX
    ELSE IF i < -PID_INTEGRAL_MAX THEN -PID_INTEGRAL_MAX
    ELSE i

\* pid_update without the subtraction of error*dt on saturation
pid_update_no_unwind(st, params, current_temp) ==
    LET error      == st.target_temp - current_temp
        integral   == pid_clamp_integral(st.integral + error)
        raw        == params.kp * error
                      + TruncDiv(params.ki * integral, 10)
                      + params.kd * 10 * (error - st.prev_error)
    IN  [st EXCEPT !.integral = integral, !.prev_error = error,
                   !.output = IF raw < 0 THEN 0
                              ELSE IF raw > 1000 THEN 1000 ELSE raw]

\* pid_update(state, params, current_temp, PID_DT): the new heater state.
\* error in 0.1 degC; error*dt in 0.01 degC*s is the same number;
\* (error - prev_error)/dt in degC/s is the same number; output in 1/1000.
pid_update(st, params, current_temp) ==
    LET error      == st.target_temp - current_temp
        integral   == pid_clamp_integral(st.integral + error)
        derivative == error - st.prev_error
        raw        == params.kp * error
                      + TruncDiv(params.ki * integral, 10)
                      + params.kd * 10 * derivative
        output     == IF raw < 0 THEN 0 ELSE IF raw > 1000 THEN 1000 ELSE raw
        unwound    == IF raw < 0 /\ error < 0 /\ integral < 0
                          THEN integral - error
                      ELSE IF raw > 1000 /\ error > 0 /\ integral > 0
                          THEN integral - error
                      ELSE integral
    IN  [st EXCEPT !.integral = unwound, !.prev_error = error,
                   !.output = output]

\* heater_set_pwm(id, duty)
heater_set_pwm(P, id, duty) ==
    LET max_power == s_heater_config[id].max_power
        d == IF duty > max_power THEN max_power ELSE duty
    IN  pwm_set_duty(P, s_heater_pwm_channel[id], d)

\* heater_init: the per-heater state it writes
heater_init_state ==
    [h \in Heaters |->
        [current_temp |-> 0, target_temp |-> 0, prev_error |-> 0,
         integral |-> 0, output |-> 0, initialized |-> 1, pwm_enabled |-> 0]]

\* heater_is_at_target with a tolerance of 2 degC
heater_is_at_target_2deg(st, adc_value) ==
    LET current == heater_get_temp(adc_value)
        target  == st.target_temp
        diff    == IF current - target < 0 THEN target - current
                                           ELSE current - target
    IN  IF target <= 0 THEN 1
        ELSE IF diff <= 20 THEN 1 ELSE 0

\* heater_is_at_target(id), after heater_get_temp has refreshed nothing on an
\* invalid sample: the comparison uses the value heater_get_temp returned
heater_is_at_target(st, adc_value) ==
    LET current == heater_get_temp(adc_value)
        target  == st.target_temp
        diff    == IF current - target < 0 THEN target - current
                                           ELSE current - target
    IN  IF target <= 0 THEN 1
        ELSE IF diff <= HEATER_TEMP_TOLERANCE THEN 1 ELSE 0

(* ========================= app/fan.c =================================== *)

FAN_PART   == "FAN_PART"
FAN_HOTEND == "FAN_HOTEND"
Fans == {FAN_PART, FAN_HOTEND}

s_fan_pwm_channel ==
    [f \in Fans |-> IF f = FAN_PART THEN PWM_CHANNEL_FAN_PART
                                    ELSE PWM_CHANNEL_FAN_HOTEND]

FAN_PWM_MAX_VALUE == 255

\* fan_init: the per-fan state it writes
fan_init_state ==
    [f \in Fans |-> [speed |-> 0, initialized |-> 1, pwm_enabled |-> 0]]

(* ========================= src/stepper.c =============================== *)

STEPPER_X == "STEPPER_X"
STEPPER_Y == "STEPPER_Y"
STEPPER_Z == "STEPPER_Z"
STEPPER_E == "STEPPER_E"
StepperOrder == <<STEPPER_X, STEPPER_Y, STEPPER_Z, STEPPER_E>>
Steppers == {StepperOrder[k] : k \in 1..Len(StepperOrder)}

STEPPER_DIR_FORWARD  == "STEPPER_DIR_FORWARD"
STEPPER_DIR_BACKWARD == "STEPPER_DIR_BACKWARD"

\* stepper_init: every stepper cleared
stepper_init ==
    [s \in Steppers |->
        [position |-> 0, dir |-> STEPPER_DIR_FORWARD, enabled |-> 0,
         configured |-> 0, interval |-> 0, count |-> 0, next_step_time |-> 0]]

\* stepper_config(id, config)
stepper_config(ST, id) == [ST EXCEPT ![id].configured = 1]

\* stepper_enable(id, enable)
stepper_enable(ST, id, enable) ==
    IF ST[id].configured = 0 THEN ST
    ELSE [ST EXCEPT ![id].enabled = IF enable # 0 THEN 1 ELSE 0]

\* stepper_set_dir without the store and the pin write
stepper_set_dir_skip(ST, id, dir) == ST

\* stepper_set_dir(id, dir)
stepper_set_dir(ST, id, dir) ==
    IF ST[id].configured = 0 THEN ST ELSE [ST EXCEPT ![id].dir = dir]

\* stepper_do_step(stepper): one pulse on the step pin; position counts them
stepper_do_step(st) ==
    IF st.configured = 0 \/ st.enabled = 0 THEN st
    ELSE IF st.dir = STEPPER_DIR_FORWARD
         THEN [st EXCEPT !.position = st.position + 1]
         ELSE [st EXCEPT !.position = st.position - 1]

\* stepper_stop with the clearing of the pending steps left out
stepper_stop_keep(ST, id) == ST

\* stepper_stop(id)
stepper_stop(ST, id) == [ST EXCEPT ![id].count = 0, ![id].interval = 0]

\* stepper_is_moving(id)
stepper_is_moving(ST, id) == IF ST[id].count > 0 THEN 1 ELSE 0

\* stepper_timer_callback: the loop body for one stepper
stepper_timer_step(st, t_now) ==
    IF st.count = 0 THEN st
    ELSE IF sched_is_before(st.next_step_time, t_now)
         THEN LET s1 == stepper_do_step(st)
                  s2 == [s1 EXCEPT !.count = s1.count - 1]
              IN  IF s2.count > 0
                  THEN [s2 EXCEPT !.next_step_time =
                                (s2.next_step_time + s2.interval) % TimeMod]
                  ELSE s2
         ELSE st

\* stepper_timer_callback: min_next_time over steppers k..STEPPER_COUNT,
\* acc = <<has_active, min_next_time>>
RECURSIVE stepper_min_next_time(_, _, _)
stepper_min_next_time(ST, k, acc) ==
    IF k > Len(StepperOrder) THEN acc
    ELSE LET st == ST[StepperOrder[k]]
         IN  IF st.count > 0
             THEN stepper_min_next_time(ST, k + 1,
                    <<1, IF acc[1] = 0 \/
                            sched_time_diff(st.next_step_time, acc[2]) < 0
                         THEN st.next_step_time ELSE acc[2]>>)
             ELSE stepper_min_next_time(ST, k + 1, acc)

\* stepper_timer_callback(waketime): <<steppers, returned waketime>>
stepper_timer_callback(ST, t_now) ==
    LET ST1 == [s \in Steppers |-> stepper_timer_step(ST[s], t_now)]
        m   == stepper_min_next_time(ST1, 1, <<0, 0>>)
    IN  <<ST1, IF m[1] # 0 THEN m[2] ELSE 0>>

(* ========================= src/endstop.c =============================== *)

ENDSTOP_X == "ENDSTOP_X"
ENDSTOP_Y == "ENDSTOP_Y"
ENDSTOP_Z == "ENDSTOP_Z"
EndstopOrder == <<ENDSTOP_X, ENDSTOP_Y, ENDSTOP_Z>>
Endstops == {EndstopOrder[k] : k \in 1..Len(EndstopOrder)}

\* ENDSTOP_SAMPLE_INTERVAL (1000 us) in the model's clock unit of 500 us
ENDSTOP_SAMPLE_INTERVAL == 2

home_endstop_callback == "home_endstop_callback"

\* endstop_init: every endstop cleared
endstop_init ==
    [e \in Endstops |->
        [configured |-> 0, triggered |-> 0, homing |-> 0,
         stepper_id |-> STEPPER_X, callback |-> NULL]]

\* endstop_config(id, config)
endstop_config(ES, id, stepper_id) ==
    [ES EXCEPT ![id].configured = 1, ![id].stepper_id = stepper_id]

\* endstop_home_start(id)
endstop_home_start(ES, id) == [ES EXCEPT ![id].homing = 1, ![id].triggered = 0]

\* endstop_home_end(id)
endstop_home_end(ES, id) == [ES EXCEPT ![id].homing = 0]

\* endstop_set_callback(id, callback, arg)
endstop_set_callback(ES, id, callback) == [ES EXCEPT ![id].callback = callback]

\* endstop_is_triggered(id)
endstop_is_triggered(ES, id) == ES[id].triggered

\* app/toolhead.c home_endstop_callback(id, arg) on the driver state D
home_endstop_callback_run(D, id) ==
    LET sid == CASE id = ENDSTOP_X -> STEPPER_X
                 [] id = ENDSTOP_Y -> STEPPER_Y
                 [] id = ENDSTOP_Z -> STEPPER_Z
    IN  [D EXCEPT !.home_triggered = 1, !.steppers = stepper_stop(@, sid)]

\* endstop_timer_callback: the loop body for endstop id reading pin level
\* value; D.seen records, for a homing endstop, the stepper's pending steps
\* before the edge was handled and at the moment the callback is entered
endstop_timer_step(D, id, value) ==
    LET es == D.endstops[id]
    IN  IF es.configured = 0 THEN D
        ELSE IF value = 1 /\ es.triggered = 0
        THEN LET D1 == [D EXCEPT !.endstops[id].triggered = 1]
                 D2 == IF es.homing = 1
                       THEN [D1 EXCEPT !.steppers =
                                          stepper_stop(@, es.stepper_id)]
                       ELSE D1
                 D3 == IF es.homing = 1 /\ es.callback # NULL
                       THEN [D2 EXCEPT !.seen[id] =
                               <<D.steppers[es.stepper_id].count,
                                 D2.steppers[es.stepper_id].count>>]
                       ELSE D2
             IN  IF es.callback = home_endstop_callback
                 THEN home_endstop_callback_run(D3, id)
                 ELSE D3
        ELSE IF value = 0 /\ es.triggered = 1
        THEN [D EXCEPT !.endstops[id].triggered = 0]
        ELSE D

\* endstop_timer_callback: endstops k..ENDSTOP_COUNT in order
RECURSIVE endstop_timer_loop(_, _, _)
endstop_timer_loop(D, k, gpio) ==
    IF k > Len(EndstopOrder) THEN D
    ELSE endstop_timer_loop(
             endstop_timer_step(D, EndstopOrder[k], gpio[EndstopOrder[k]]),
             k + 1, gpio)

(* ==================== src/sched.c: sched_main ========================== *)

\* PWM_DEFAULT_CYCLE_TIME / PWM_MAX_VALUE (3 us) rounded up to one clock unit
PWM_TICK_INTERVAL == 1

\* timer->func(waketime) for each of the three timers: <<D, next waketime>>
timer_func(D, timer, waketime, t_now, gpio) ==
    CASE timer = "endstop" ->
            <<endstop_timer_loop(D, 1, gpio),
              (waketime + ENDSTOP_SAMPLE_INTERVAL) % TimeMod>>
      [] timer = "stepper" ->
            LET r == stepper_timer_callback(D.steppers, t_now)
            IN  <<[D EXCEPT !.steppers = r[1]], r[2]>>
      [] timer = "pwm" ->
            <<D, (waketime + PWM_TICK_INTERVAL) % TimeMod>>

\* sched_main: the dispatch loop, at most fuel callbacks (a loop that needs
\* more has not returned: hung)
RECURSIVE sched_main_loop(_, _, _, _)
sched_main_loop(D, t_now, gpio, fuel) ==
    LET timer == D.sched.list
    IN  IF D.sched.hung \/ timer = NULL THEN D
        ELSE IF ~sched_is_before(D.sched.waketime[timer], t_now) THEN D
        ELSE IF fuel = 0 THEN [D EXCEPT !.sched.hung = TRUE]
        ELSE LET S1 == [D.sched EXCEPT !.list = D.sched.next[timer],
                                       !.next[timer] = NULL]
                 r  == timer_func([D EXCEPT !.sched = S1], timer,
                                  D.sched.waketime[timer], t_now, gpio)
                 D2 == r[1]
                 D3 == IF r[2] # 0
                       THEN [D2 EXCEPT !.sched =
                               sched_add_timer(
                                 [D2.sched EXCEPT !.waketime[timer] = r[2]],
                                 timer)]
                       ELSE D2
             IN  sched_main_loop(D3, t_now, gpio, fuel - 1)

(* ========================= chelper/trapq.c ============================= *)

TRAPQ_MAX_MOVES == 32

\* trapq_alloc: both lists empty
trapq_alloc == [moves |-> <<>>, history |-> <<>>]

\* the end time of a queued move
move_end(m) == m.print_time + m.move_t

\* the pool entries in use: every move of either list holds one
pool_used(tq) == Len(tq.moves) + Len(tq.history)

\* trapq_append with a move_t one ms longer than the three phases together
trapq_append_long(tq, print_time, prof, start_pos, end_pos, start_v, cruise_v, end_v) ==
    IF pool_used(tq) >= TRAPQ_MAX_MOVES THEN tq
    ELSE [tq EXCEPT !.moves = Append(@, [print_time |-> print_time,
                                         move_t |-> prof[1] + prof[2] + prof[3]
                                                    + 1,
                                         accel_t |-> prof[1],
                                         cruise_t |-> prof[2],
                                         decel_t |-> prof[3],
                                         start_v |-> start_v,
                                         cruise_v |-> cruise_v,
                                         end_v |-> end_v,
                                         start_pos |-> start_pos,
                                         end_pos |-> end_pos])]

\* trapq_append: move_alloc fails when all TRAPQ_MAX_MOVES pool entries are in
\* use, and the function then returns without a word. The move keeps its end
\* point where the code keeps the direction axes_r, and end_v, the end
\* velocity the profile was computed for (trapq_append is not given it).
\* prof is <<accel_t, cruise_t, decel_t>> in ms.
trapq_append(tq, print_time, prof, start_pos, end_pos, start_v, cruise_v, end_v) ==
    IF pool_used(tq) >= TRAPQ_MAX_MOVES THEN tq
    ELSE [tq EXCEPT !.moves = Append(@, [print_time |-> print_time,
                                         move_t |-> prof[1] + prof[2] + prof[3],
                                         accel_t |-> prof[1],
                                         cruise_t |-> prof[2],
                                         decel_t |-> prof[3],
                                         start_v |-> start_v,
                                         cruise_v |-> cruise_v,
                                         end_v |-> end_v,
                                         start_pos |-> start_pos,
                                         end_pos |-> end_pos])]

\* move_get_distance(m, m->move_t) in micrometres: the three phases of the
\* stored profile, with half_accel = MAX_ACCEL / 2 (mm/s * ms = micrometre)
move_get_distance(m, max_accel) ==
    (IF m.accel_t > 0
     THEN m.start_v * m.accel_t
          + (max_accel * m.accel_t * m.accel_t) \div 2000
     ELSE 0)
    + (IF m.cruise_t > 0 THEN m.cruise_v * m.cruise_t ELSE 0)
    + (IF m.decel_t > 0
       THEN m.cruise_v * m.decel_t
            - (max_accel * m.decel_t * m.decel_t) \div 2000
       ELSE 0)

\* trapq_finalize_moves(tq, print_time)
trapq_finalize_moves(tq, print_time) ==
    LET done(m) == move_end(m) <= print_time
        live(m) == ~done(m)
    IN  [moves |-> SelectSeq(tq.moves, live),
         history |-> tq.history \o SelectSeq(tq.moves, done)]

\* trapq_free_moves(tq, print_time)
trapq_free_moves(tq, print_time) ==
    LET kept(m) == ~(move_end(m) < print_time)
    IN  [tq EXCEPT !.history = SelectSeq(@, kept)]

\* trapq_has_moves(tq)
trapq_has_moves(tq) == IF Len(tq.moves) > 0 THEN 1 ELSE 0

(* ========================= app/toolhead.c ============================== *)

TOOLHEAD_OK          == 0
TOOLHEAD_ERR_NULL    == -1
TOOLHEAD_ERR_LIMIT   == -2
TOOLHEAD_ERR_QUEUE   == -3
TOOLHEAD_ERR_HOMING  == -5

\* config.h, in mm, mm/s and mm/s^2
MAX_VELOCITY == 200
MAX_ACCEL    == 3000
X_MAX == 220
Y_MAX == 220
Z_MAX == 250

HOMING_SPEED   == 10
HOMING_RETRACT == 5
\* HOMING_TIMEOUT in ms of print time
HOMING_TIMEOUT == 30000
LOOKAHEAD_SIZE == 16

\* the value -1e9 that lifts the lower limits while homing
NO_LIMIT == -1000000000

Axes == {"x", "y", "z"}
AXIS_ALL_MASK == Axes

coord_clear == [x |-> 0, y |-> 0, z |-> 0, e |-> 0]

\* config_init_defaults: s_min_pos and s_max_pos of X, Y, Z
config_min_pos == [a \in Axes |-> 0]
config_max_pos == [x |-> X_MAX, y |-> Y_MAX, z |-> Z_MAX]

\* largest root Isqrt is asked for
SqrtMax == 2000

\* sqrt() cut to an integer
RECURSIVE isqrt_search(_, _, _)
isqrt_search(n, lo, hi) ==
    IF lo >= hi THEN lo
    ELSE LET mid == (lo + hi + 1) \div 2
         IN  IF mid * mid <= n THEN isqrt_search(n, mid, hi)
             ELSE isqrt_search(n, lo, mid - 1)

Isqrt(n) == isqrt_search(n, 0, SqrtMax)

\* calc_move_distance(start, end), cut to whole mm
calc_move_distance(start, end) ==
    Isqrt((end.x - start.x) * (end.x - start.x)
          + (end.y - start.y) * (end.y - start.y)
          + (end.z - start.z) * (end.z - start.z)
          + (end.e - start.e) * (end.e - start.e))

\* the two points differ, i.e. the move is at least MIN_MOVE_DISTANCE long
coord_differ(start, end) ==
    start.x # end.x \/ start.y # end.y \/ start.z # end.z \/ start.e # end.e

Min(a, b) == IF a < b THEN a ELSE b
Max(a, b) == IF a > b THEN a ELSE b

\* s_config.max_accel_to_decel and s_config.square_corner_velocity
MAX_ACCEL_TO_DECEL == MAX_ACCEL \div 2
SQUARE_CORNER_VELOCITY == 5

\* calc_trapezoidal_profile(distance, start_v, cruise_v, end_v, accel):
\* <<accel_t, cruise_t, decel_t>> in ms; distance in mm, velocities in mm/s
calc_trapezoidal_profile(distance, start_v, cruise_v, end_v, accel) ==
    LET accel_t0   == IF cruise_v > start_v
                      THEN ((cruise_v - start_v) * 1000) \div accel ELSE 0
        accel_dist == IF cruise_v > start_v
                      THEN ((start_v + cruise_v) * accel_t0) \div 2 ELSE 0
        decel_t0   == IF cruise_v > end_v
                      THEN ((cruise_v - end_v) * 1000) \div accel ELSE 0
        decel_dist == IF cruise_v > end_v
                      THEN ((cruise_v + end_v) * decel_t0) \div 2 ELSE 0
        cruise_dist == distance * 1000 - accel_dist - decel_dist
        peak_v == Max(Max(Isqrt((start_v * start_v + end_v * end_v) \div 2
                                + accel * distance),
                          start_v), end_v)
    IN  IF cruise_dist < 0
        THEN << IF peak_v > start_v
                THEN ((peak_v - start_v) * 1000) \div accel ELSE 0,
                0,
                IF peak_v > end_v
                THEN ((peak_v - end_v) * 1000) \div accel ELSE 0 >>
        ELSE <<accel_t0, cruise_dist \div cruise_v, decel_t0>>

\* the dot product of the directions of two moves, times 1000
\* (cartesian_calc_direction normalises with the E axis included)
dir_dot(prev, curr) ==
    IF prev.distance = 0 \/ curr.distance = 0 THEN 0
    ELSE (1000 * ((prev.end_pos.x - prev.start_pos.x)
                     * (curr.end_pos.x - curr.start_pos.x)
                  + (prev.end_pos.y - prev.start_pos.y)
                     * (curr.end_pos.y - curr.start_pos.y)
                  + (prev.end_pos.z - prev.start_pos.z)
                     * (curr.end_pos.z - curr.start_pos.z)))
         \div (prev.distance * curr.distance)

\* calc_junction_velocity(prev_dir, next_dir, max_v)
calc_junction_velocity(dot, max_v) ==
    IF dot < -999 THEN 0
    ELSE IF dot > 999 THEN max_v
    ELSE LET sin_half_theta == Isqrt((1000 - dot) * 500)
             junction_v == Isqrt((SQUARE_CORNER_VELOCITY
                                  * SQUARE_CORNER_VELOCITY * 1000)
                                 \div sin_half_theta)
         IN  Min(junction_v, max_v)

\* lookahead_process, the backward pass: entry i and the entries after it
\* are done; L[i].max_end_v is set
RECURSIVE lookahead_backward(_, _)
lookahead_backward(L, i) ==
    IF i <= 1 THEN L
    ELSE LET curr == L[i]
             prev == L[i - 1]
             max_start_v == Min(Isqrt(curr.max_end_v * curr.max_end_v
                                      + 2 * MAX_ACCEL * curr.distance),
                                curr.max_cruise_v)
             junction_v == calc_junction_velocity(dir_dot(prev, curr),
                                                  max_start_v)
             msv == Min(junction_v, max_start_v)
         IN  lookahead_backward(
                 [L EXCEPT ![i].max_start_v = msv, ![i - 1].max_end_v = msv],
                 i - 1)

\* lookahead_process, the forward pass from entry i with the end velocity of
\* the entry before it
RECURSIVE lookahead_forward(_, _, _)
lookahead_forward(L, i, prev_end_v) ==
    IF i > Len(L) THEN L
    ELSE LET move == L[i]
             cruise_v == Min(Isqrt(prev_end_v * prev_end_v
                                   + 2 * MAX_ACCEL * move.distance),
                             move.max_cruise_v)
             max_end_v_sq == cruise_v * cruise_v
                             - 2 * MAX_ACCEL_TO_DECEL * move.distance
             end_v == Min(IF max_end_v_sq > 0 THEN Isqrt(max_end_v_sq) ELSE 0,
                          move.max_end_v)
         IN  lookahead_forward(
                 [L EXCEPT ![i].start_v = prev_end_v, ![i].cruise_v = cruise_v,
                           ![i].end_v = end_v],
                 i + 1, end_v)

\* lookahead_process(): the forward pass starts from prev_end_v = 0.0
lookahead_process(L) ==
    IF Len(L) = 0 THEN L
    ELSE lookahead_forward(
             lookahead_backward([L EXCEPT ![Len(L)].max_end_v = 0], Len(L)),
             1, 0)

\* lookahead_pop followed by calc_trapezoidal_profile and trapq_append, as in
\* lookahead_flush and in the drain loop of toolhead_move, until at most keep
\* moves are left
RECURSIVE lookahead_drain(_, _)
lookahead_drain(T, keep) ==
    IF Len(T.lookahead) <= keep THEN T
    ELSE LET m    == Head(T.lookahead)
             prof == calc_trapezoidal_profile(m.distance, m.start_v,
                                              m.cruise_v, m.end_v, MAX_ACCEL)
         IN  lookahead_drain(
               [T EXCEPT !.lookahead = Tail(@),
                         !.trapq = trapq_append(@, T.print_time, prof,
                                                m.start_pos, m.end_pos,
                                                m.start_v, m.cruise_v,
                                                m.end_v),
                         !.print_time = @ + prof[1] + prof[2] + prof[3],
                         !.current = m.end_pos],
               keep)

\* lookahead_process(); lookahead_flush()
lookahead_flush(T) ==
    lookahead_drain([T EXCEPT !.lookahead = lookahead_process(@)], 0)

\* toolhead_move(p_end_pos, speed): <<toolhead state, return value>>
toolhead_move(T, end_pos, speed) ==
    LET max_v == IF speed > MAX_VELOCITY \/ speed < 1 THEN MAX_VELOCITY
                 ELSE speed
        move  == [start_pos |-> T.commanded, end_pos |-> end_pos,
                  distance |-> calc_move_distance(T.commanded, end_pos),
                  max_cruise_v |-> max_v, max_start_v |-> max_v,
                  max_end_v |-> max_v, start_v |-> 0, cruise_v |-> max_v,
                  end_v |-> 0]
        T1    == IF Len(T.lookahead) >= LOOKAHEAD_SIZE THEN lookahead_flush(T)
                 ELSE T
        T2    == [T1 EXCEPT !.lookahead = Append(@, move),
                            !.commanded = end_pos]
    IN  IF ~coord_differ(T.commanded, end_pos) THEN <<T, TOOLHEAD_OK>>
        ELSE IF \E a \in Axes : end_pos[a] < T.min_pos[a]
                                \/ end_pos[a] > config_max_pos[a]
             THEN <<T, TOOLHEAD_ERR_LIMIT>>
        ELSE IF Len(T2.lookahead) >= LOOKAHEAD_SIZE - 2
             THEN <<lookahead_drain(
                        [T2 EXCEPT !.lookahead = lookahead_process(@)], 2),
                    TOOLHEAD_OK>>
        ELSE <<T2, TOOLHEAD_OK>>

\* toolhead_wait_moves(): no stepper has pending steps when it is called, so
\* its sched_main loop is not entered
toolhead_wait_moves(T) ==
    LET T1 == lookahead_flush(T)
    IN  [T1 EXCEPT !.current = T1.commanded]

\* toolhead_flush()
toolhead_flush(T) ==
    LET T1 == lookahead_flush(T)
    IN  [T1 EXCEPT !.trapq =
            trapq_free_moves(trapq_finalize_moves(@, T1.print_time),
                             T1.print_time - 1000)]

\* toolhead_has_moves()
toolhead_has_moves(T) ==
    IF Len(T.lookahead) > 0 THEN 1
    ELSE IF trapq_has_moves(T.trapq) = 1 THEN 1
    ELSE 0

\* toolhead_init
toolhead_init ==
    [commanded |-> coord_clear, current |-> coord_clear, lookahead |-> <<>>,
     trapq |-> trapq_alloc, print_time |-> 0, min_pos |-> config_min_pos]

(* ========================= src/stm32/serial.c ========================== *)

\* characters are one-character strings; NUL is the terminator a C string
\* ends with, BS and DEL the two erase characters
NUL == "<NUL>"
BS  == "<BS>"
DEL == "<DEL>"

SERIAL_LINE_BUFFER_SIZE == 128

\* process_rx_byte with the test of s_line_ready left out
process_rx_byte_unguarded(L, byte) ==
    IF byte = "\n" \/ byte = "\r"
    THEN IF Len(L[1]) > 0 THEN <<L[1], 1>> ELSE L
    ELSE IF byte = BS \/ byte = DEL
         THEN IF Len(L[1]) > 0 THEN <<SubSeq(L[1], 1, Len(L[1]) - 1), L[2]>>
              ELSE L
    ELSE IF Len(L[1]) < SERIAL_LINE_BUFFER_SIZE - 1
         THEN <<Append(L[1], byte), L[2]>>
    ELSE L

\* process_rx_byte(byte): the line-buffer part, on <<s_line_buffer, s_line_ready>>
process_rx_byte(L, byte) ==
    IF L[2] = 1 THEN L
    ELSE IF byte = "\n" \/ byte = "\r"
         THEN IF Len(L[1]) > 0 THEN <<L[1], 1>> ELSE L
    ELSE IF byte = BS \/ byte = DEL
         THEN IF Len(L[1]) > 0 THEN <<SubSeq(L[1], 1, Len(L[1]) - 1), 0>>
              ELSE L
    ELSE IF Len(L[1]) < SERIAL_LINE_BUFFER_SIZE - 1
         THEN <<Append(L[1], byte), 0>>
    ELSE L

\* the receive interrupt taking the bytes of a sequence one after the other
RECURSIVE serial_rx(_, _)
serial_rx(L, bytes) ==
    IF bytes = <<>> THEN L
    ELSE serial_rx(process_rx_byte(L, Head(bytes)), Tail(bytes))

\* serial_readline(line, maxlen): the line it copies out
serial_readline(buffer, maxlen) ==
    IF Len(buffer) >= maxlen THEN SubSeq(buffer, 1, maxlen - 1) ELSE buffer

(* ========================= app/gcode.c: the parser ===================== *)

GCODE_OK          == "GCODE_OK"
GCODE_ERR_EMPTY   == "GCODE_ERR_EMPTY"
GCODE_ERR_COMMENT == "GCODE_ERR_COMMENT"
GCODE_ERR_INVALID == "GCODE_ERR_INVALID"
GCODE_ERR_UNKNOWN == "GCODE_ERR_UNKNOWN"

GCODE_LINE_BUFFER_SIZE == 128

Digits == <<"0", "1", "2", "3", "4", "5", "6", "7", "8", "9">>
IsDigit(c) == \E k \in 1..10 : Digits[k] = c
DigitVal(c) == (CHOOSE k \in 1..10 : Digits[k] = c) - 1

\* *str, NUL at the end of the string
At(str) == IF str = <<>> THEN NUL ELSE Head(str)

\* toupper() on the letters the parser looks for
toupper(c) ==
    CASE c = "g" -> "G" [] c = "m" -> "M" [] c = "x" -> "X" [] c = "y" -> "Y"
      [] c = "z" -> "Z" [] c = "e" -> "E" [] c = "f" -> "F" [] c = "s" -> "S"
      [] OTHER -> c

RECURSIVE skip_whitespace(_)
skip_whitespace(str) ==
    IF At(str) = " " \/ At(str) = "\t" THEN skip_whitespace(Tail(str))
    ELSE str

\* the digit loops of parse_command and parse_float: <<value, rest>>
RECURSIVE parse_digits(_, _)
parse_digits(str, acc) ==
    IF IsDigit(At(str)) THEN parse_digits(Tail(str), acc * 10 + DigitVal(At(str)))
    ELSE <<acc, str>>

\* the fraction digits of parse_float are read and, in whole units, dropped
RECURSIVE skip_digits(_)
skip_digits(str) == IF IsDigit(At(str)) THEN skip_digits(Tail(str)) ELSE str

\* parse_float(str, &value, &end): <<0 or -1, value, end>>
parse_float(str) ==
    LET s0 == skip_whitespace(str)
        negative == At(s0) = "-"
        s1 == IF At(s0) = "-" \/ At(s0) = "+" THEN Tail(s0) ELSE s0
        d  == parse_digits(s1, 0)
        s2 == IF At(d[2]) = "." THEN skip_digits(Tail(d[2])) ELSE d[2]
        has_digits == d[2] # s1 \/ (At(d[2]) = "." /\ s2 # Tail(d[2]))
    IN  IF ~has_digits THEN <<-1, 0, str>>
        ELSE <<0, IF negative THEN -d[1] ELSE d[1], s2>>

\* parse_command(line, p_cmd): <<ret, cmd, code>>
parse_command(line) ==
    LET p_pos == skip_whitespace(line)
        cmd_char == toupper(At(p_pos))
        d == parse_digits(Tail(p_pos), 0)
    IN  IF cmd_char # "G" /\ cmd_char # "M" THEN <<GCODE_ERR_INVALID, NUL, 0>>
        ELSE <<GCODE_OK, cmd_char, d[1]>>

\* is_supported_gcode without its case 91
is_supported_gcode_no91(cmd, code) ==
    IF cmd = "G" THEN code \in {0, 1, 28, 90}
    ELSE IF cmd = "M" THEN code \in {104, 109, 106, 107, 114}
    ELSE FALSE

\* is_supported_gcode(cmd, code)
is_supported_gcode(cmd, code) ==
    IF cmd = "G" THEN code \in {0, 1, 28, 90, 91}
    ELSE IF cmd = "M" THEN code \in {104, 109, 106, 107, 114}
    ELSE FALSE

(* ========================= app/gcode.c ================================= *)

GCODE_MODE_ABSOLUTE == "GCODE_MODE_ABSOLUTE"
GCODE_MODE_RELATIVE == "GCODE_MODE_RELATIVE"

\* a parsed command (gcode_cmd_t): letter, code, and the parameters present as
\* <<letter, value>> pairs (has_x and x, ...); S is in 0.1 degC
GcodeCmd(cmd, code, params) == [cmd |-> cmd, code |-> code, params |-> params]
has(p_cmd, letter) == \E p \in p_cmd.params : p[1] = letter
param(p_cmd, letter) == (CHOOSE p \in p_cmd.params : p[1] = letter)[2]

\* the lines the host sends: G1 X10, G1 X300, G28 X, G28, M104 S200, M109 S200
GcodeInputs ==
    {GcodeCmd("G", 1, {<<"x", 10>>}), GcodeCmd("G", 1, {<<"x", 300>>}),
     GcodeCmd("G", 28, {<<"x", 0>>}), GcodeCmd("G", 28, {}),
     GcodeCmd("M", 104, {<<"s", 2000>>}), GcodeCmd("M", 109, {<<"s", 2000>>})}

\* gcode_cmd_clear
gcode_cmd_clear == GcodeCmd(NUL, 0, {})

\* parse_parameters: the switch that stores one parameter
store_parameter(params, param_char, value) ==
    LET l == CASE param_char = "X" -> "x" [] param_char = "Y" -> "y"
               [] param_char = "Z" -> "z" [] param_char = "E" -> "e"
               [] param_char = "F" -> "f" [] param_char = "S" -> "s"
               [] OTHER -> NUL
    IN  IF l = NUL THEN params
        ELSE {p \in params : p[1] # l} \cup {<<l, value>>}

\* parse_parameters: its while loop from position p_pos on
RECURSIVE parse_parameters_loop(_, _, _)
parse_parameters_loop(p_pos, is_g28, params) ==
    IF At(p_pos) = NUL THEN params
    ELSE LET q == skip_whitespace(p_pos)
         IN  IF At(q) = NUL \/ At(q) = "\n" \/ At(q) = "\r" \/ At(q) = ";"
             THEN params
             ELSE LET f == parse_float(Tail(q))
                  IN  IF f[1] # 0
                      THEN parse_parameters_loop(
                               Tail(q), is_g28,
                               IF is_g28
                               THEN store_parameter(params, toupper(At(q)), 0)
                               ELSE params)
                      ELSE parse_parameters_loop(
                               f[3], is_g28,
                               store_parameter(params, toupper(At(q)), f[2]))

\* parse_parameters(line, p_cmd): the parameters it stores
parse_parameters(line, cmd, code) ==
    LET p0 == skip_whitespace(line)
        p1 == IF toupper(At(p0)) = "G" \/ toupper(At(p0)) = "M"
              THEN skip_digits(Tail(p0)) ELSE p0
    IN  parse_parameters_loop(p1, cmd = "G" /\ code = 28, {})

\* gcode_parse_line(line, p_cmd): <<ret, *p_cmd>>
gcode_parse_line(line) ==
    LET p_pos == skip_whitespace(line)
        c == parse_command(p_pos)
    IN  IF At(p_pos) = NUL \/ At(p_pos) = "\n" \/ At(p_pos) = "\r"
        THEN <<GCODE_ERR_EMPTY, gcode_cmd_clear>>
        ELSE IF At(p_pos) = ";" THEN <<GCODE_ERR_COMMENT, gcode_cmd_clear>>
        ELSE IF c[1] # GCODE_OK THEN <<c[1], gcode_cmd_clear>>
        ELSE IF ~is_supported_gcode(c[2], c[3])
             THEN <<GCODE_ERR_UNKNOWN, GcodeCmd(c[2], c[3], {})>>
        ELSE <<GCODE_OK,
               GcodeCmd(c[2], c[3], parse_parameters(p_pos, c[2], c[3]))>>

\* execute_g0_g1: the target it computes from the position it was given
g0_g1_target(p_cmd, pos, mode) ==
    [a \in {"x", "y", "z", "e"} |->
        IF has(p_cmd, a)
        THEN IF mode = GCODE_MODE_ABSOLUTE THEN param(p_cmd, a)
             ELSE pos[a] + param(p_cmd, a)
        ELSE pos[a]]

\* execute_g28: the axes mask
g28_axes_mask(p_cmd) ==
    LET m == {a \in Axes : has(p_cmd, a)}
    IN  IF m = {} THEN AXIS_ALL_MASK ELSE m

\* gcode.c calls toolhead_move(x, y, z, e, speed) with five floats while
\* toolhead.c defines toolhead_move(const struct coord *, float): what the
\* callee finds in its pointer argument is not defined. "coord": it sees the
\* target the caller meant; "null": it sees a null pointer.
BridgeOutcomes == {"coord", "null"}

gcode_toolhead_move(T, target, speed, outcome) ==
    IF outcome = "null" THEN <<T, TOOLHEAD_ERR_NULL>>
    ELSE toolhead_move(T, target, speed)

(* ============================ state ==================================== *)

VARIABLES
    now,                 \* timer_read_time(): the hardware microsecond counter
    sched,               \* s_timer_list and the timers' link and waketime
    s_shutdown_flag,     \* sched.c
    halted,              \* the main thread sits in a final for(;;) loop
    s_pwm_channels,      \* pwmcmds.c
    s_soft_pwm_enabled,  \* pwmcmds.c
    s_heater_state,      \* heater.c
    s_fan_state,         \* fan.c
    adc_pin,             \* the ADC sample each heater's channel delivers
    s_steppers,          \* stepper.c
    s_endstops,          \* endstop.c
    gpio_in,             \* the level of each endstop's input pin
    s_home_ctx,          \* toolhead.c: the homing context
    endstop_seen,        \* per endstop: the stepper's pending steps before a
                         \* homing edge was handled and on entry to the callback
    s_commanded_pos,     \* toolhead.c
    s_current_pos,       \* toolhead.c
    s_lookahead,         \* toolhead.c: the look-ahead queue, oldest first
    s_trapq,             \* trapq.c: the moves and history lists
    s_print_time,        \* toolhead.c, in ms
    s_min_pos,           \* toolhead.c: lower limits of X, Y, Z
    th_ret,              \* the value the last toolhead_move or toolhead_home
                         \* call returned
    home_locals,         \* toolhead_home: its locals timeout_time (ms), saved_min
    pc,                  \* where the main thread is in main()'s loop
    s_pos,               \* gcode.c: s_pos_x, s_pos_y, s_pos_z, s_pos_e
    s_feedrate,          \* gcode.c, mm/min
    s_coord_mode,        \* gcode.c
    last_cmd,            \* the command gcode_process took last
    response,            \* the response gcode_respond sent for it
    lines_done,          \* lines read from the serial port so far
    s_line_buffer,       \* serial.c: s_line_buffer[0 .. s_line_len-1]
    s_line_ready,        \* serial.c
    gcode_line_buffer,   \* gcode.c: its own s_line_buffer
    parse_ret,           \* gcode_process: what gcode_parse_line returned last
    host_line,           \* the line the host sent last, without its terminator
    host_tx,             \* the lines the UART has received whole, and the
                         \* bytes of host_line it has yet to receive
    fan_request,         \* the arguments of the last fan_set_speed call
    at_target,           \* heater_is_at_target: calls made, last id and result
    th_call              \* the toolhead.c function its direct caller called last

vars == <<now, sched, s_shutdown_flag, halted, s_pwm_channels,
          s_soft_pwm_enabled, s_heater_state, s_fan_state, adc_pin,
          s_steppers, s_endstops, gpio_in, s_home_ctx, endstop_seen,
          s_commanded_pos, s_current_pos, s_lookahead, s_trapq, s_print_time,
          s_min_pos, th_ret, home_locals, pc, s_pos, s_feedrate,
          s_coord_mode, last_cmd, response, lines_done, s_line_buffer,
          s_line_ready, gcode_line_buffer, parse_ret, host_line, host_tx,
          fan_request, at_target, th_call>>

schedVars  == <<now, sched, s_shutdown_flag, halted>>
pwmVars    == <<s_pwm_channels, s_soft_pwm_enabled>>
heaterVars == <<s_heater_state, adc_pin>>
fanVars    == <<s_fan_state>>
driverVars == <<s_steppers, s_endstops, gpio_in, s_home_ctx, endstop_seen>>
toolVars   == <<s_commanded_pos, s_current_pos, s_lookahead, s_trapq,
                s_print_time, s_min_pos, th_ret>>
lineVars   == <<s_line_buffer, s_line_ready, gcode_line_buffer, parse_ret,
                host_line, host_tx>>
hostVars   == <<lineVars, fan_request, at_target, th_call>>
gcodeVars  == <<home_locals, pc, s_pos, s_feedrate, s_coord_mode,
                last_cmd, response, lines_done>>

(* -------- boot: main() up to the main loop (app/main.c) ---------------- *)

\* heater_init: pwm_init, then pwm_config of both heater channels
boot_pwm_after_heater_init ==
    pwm_config(pwm_config(pwm_init_channels,
                          PWM_CHANNEL_HEATER_HOTEND, 255),
               PWM_CHANNEL_HEATER_BED, 255)

\* fan_init: pwm_init again, then pwm_config of both fan channels
boot_pwm_after_fan_init ==
    pwm_config(pwm_config(pwm_init_channels,
                          PWM_CHANNEL_FAN_PART, FAN_PWM_MAX_VALUE),
               PWM_CHANNEL_FAN_HOTEND, FAN_PWM_MAX_VALUE)

\* samples the heater ADC channels can deliver: adc_read error, below the
\* table (300 degC), table entries and points between them, above the table,
\* and a value above ADC_MAX_VALUE
AdcInputs ==
    [h \in Heaters |-> IF h = HEATER_HOTEND THEN {-1, 10, 1670, 2534, 4000}
                                            ELSE {10, 2918, 4096}]

\* targets passed to heater_set_temp, 0.1 degC
TargetInputs ==
    [h \in Heaters |-> IF h = HEATER_HOTEND THEN {0, 2000} ELSE {0, 600}]

\* the board set-up: stepper_init, then X and Y configured and enabled
boot_steppers ==
    stepper_enable(
      stepper_enable(
        stepper_config(stepper_config(stepper_init, STEPPER_X), STEPPER_Y),
        STEPPER_X, 1),
      STEPPER_Y, 1)

\* the board set-up: endstop_init, then X and Y configured on their steppers
boot_endstops ==
    endstop_config(endstop_config(endstop_init, ENDSTOP_X, STEPPER_X),
                   ENDSTOP_Y, STEPPER_Y)

\* the clock value on entry to the main loop
BootTime == 1

\* sched_init, the two pwm_init calls, and endstop_init registering its timer
\* when timer_read_time() gives t
boot_sched_at(t) ==
    sched_add_timer(
        [pwm_init_timer(pwm_init_timer(sched_init))
            EXCEPT !.waketime["endstop"] =
                      (t + ENDSTOP_SAMPLE_INTERVAL) % TimeMod],
        "endstop")

boot_sched == boot_sched_at(BootTime)

HOME_STATE_IDLE    == "HOME_STATE_IDLE"
HOME_STATE_FAST    == "HOME_STATE_FAST"
HOME_STATE_RETRACT == "HOME_STATE_RETRACT"
HOME_STATE_DONE    == "HOME_STATE_DONE"
HOME_STATE_ERROR   == "HOME_STATE_ERROR"

\* the state after construction, the clock and the timer list aside
InitRest ==
    /\ s_shutdown_flag = 0
    /\ halted = FALSE
    /\ s_pwm_channels = boot_pwm_after_fan_init
    /\ s_soft_pwm_enabled = 0
    /\ s_heater_state = heater_init_state
    /\ s_fan_state = fan_init_state
    /\ adc_pin \in [Heaters -> {2918}]
    /\ s_steppers = boot_steppers
    /\ s_endstops = boot_endstops
    /\ gpio_in = [e \in Endstops |-> 0]
    /\ s_home_ctx = [state |-> HOME_STATE_IDLE, axis_mask |-> {}, triggered |-> 0]
    /\ endstop_seen = [e \in Endstops |-> <<-1, -1>>]
    /\ s_commanded_pos = toolhead_init.commanded
    /\ s_current_pos = toolhead_init.current
    /\ s_lookahead = toolhead_init.lookahead
    /\ s_trapq = toolhead_init.trapq
    /\ s_print_time = toolhead_init.print_time
    /\ s_min_pos = toolhead_init.min_pos
    /\ th_ret = TOOLHEAD_OK
    /\ home_locals = [timeout_time |-> 0, saved_min |-> config_min_pos]
    /\ pc = "sched_main"
    /\ s_pos = coord_clear
    /\ s_feedrate = 3000
    /\ s_coord_mode = GCODE_MODE_ABSOLUTE
    /\ last_cmd = gcode_cmd_clear
    /\ response = NULL
    /\ lines_done = 0
    /\ s_line_buffer = <<>>
    /\ s_line_ready = 0
    /\ gcode_line_buffer = <<>>
    /\ parse_ret = NULL
    /\ host_line = <<NUL>>
    /\ host_tx = [sent |-> <<>>, rest |-> <<>>]
    /\ fan_request = <<>>
    /\ at_target = [calls |-> 0, id |-> HEATER_HOTEND, ret |-> 0]
    /\ th_call = "toolhead_init"

Init ==
    /\ now = BootTime
    /\ sched = boot_sched
    /\ InitRest

\* the same with the clock at any value when the main loop is entered
InitBoot ==
    /\ now \in 0..(TimeMod - 1)
    /\ sched = boot_sched_at(now)
    /\ InitRest

(* ------------------------ heater operations ---------------------------- *)

\* one iteration of the loop of heater_task, for heater i sampling adc_value:
\* the new state of heater i
heater_task_state(st, i, adc_value) ==
    LET current_temp == heater_get_temp(adc_value)
        st1 == heater_get_temp_state(st, adc_value)
    IN  IF current_temp = HEATER_TEMP_INVALID THEN st1
        ELSE IF st1.target_temp <= 0 THEN [st1 EXCEPT !.output = 0]
        ELSE pid_update(st1, s_heater_config[i], current_temp)

\* heater_task keeping the last PID output on an invalid reading
heater_task_duty_stale(st, i, adc_value) ==
    IF st.target_temp <= 0 THEN 0 ELSE st.output

\* one iteration of the loop of heater_task: the duty handed to heater_set_pwm
heater_task_duty(st, i, adc_value) ==
    LET current_temp == heater_get_temp(adc_value)
    IN  IF current_temp = HEATER_TEMP_INVALID THEN 0
        ELSE IF st.target_temp <= 0 THEN 0
        ELSE heater_task_state(st, i, adc_value).output

\* heater_task(): both heaters, hotend first
HeaterTask ==
    /\ ~halted
    /\ s_heater_state' =
          [i \in Heaters |->
              heater_task_state(s_heater_state[i], i, adc_pin[i])]
    /\ s_pwm_channels' =
          heater_set_pwm(
              heater_set_pwm(s_pwm_channels, HEATER_HOTEND,
                  heater_task_duty(s_heater_state[HEATER_HOTEND],
                                   HEATER_HOTEND, adc_pin[HEATER_HOTEND])),
              HEATER_BED,
              heater_task_duty(s_heater_state[HEATER_BED],
                               HEATER_BED, adc_pin[HEATER_BED]))
    /\ UNCHANGED <<schedVars, s_soft_pwm_enabled, adc_pin, fanVars, driverVars, toolVars,
                   gcodeVars,
                   hostVars>>

\* heater_set_temp leaving the output field alone for a target of 0
heater_set_temp_state_keep(st, target_in) ==
    LET target == IF target_in < HEATER_TEMP_MIN THEN HEATER_TEMP_MIN
                  ELSE IF target_in > HEATER_TEMP_MAX THEN HEATER_TEMP_MAX
                  ELSE target_in
        st1 == [st EXCEPT !.target_temp = target]
    IN  IF target <= 0
        THEN [st1 EXCEPT !.integral = 0, !.prev_error = 0, !.pwm_enabled = 0]
        ELSE [st1 EXCEPT !.pwm_enabled = 1]

\* heater_set_temp(id, target): the heater state
heater_set_temp_state(st, target_in) ==
    LET target == IF target_in < HEATER_TEMP_MIN THEN HEATER_TEMP_MIN
                  ELSE IF target_in > HEATER_TEMP_MAX THEN HEATER_TEMP_MAX
                  ELSE target_in
        old_target == st.target_temp
        target_diff == IF target - old_target < 0 THEN old_target - target
                                                  ELSE target - old_target
        st1 == [st EXCEPT !.target_temp = target]
        st2 == IF target_diff > PID_TARGET_CHANGE_THRESHOLD
               THEN [st1 EXCEPT !.integral = 0, !.prev_error = 0]
               ELSE st1
    IN  IF target <= 0
        THEN [st2 EXCEPT !.integral = 0, !.prev_error = 0, !.output = 0,
                         !.pwm_enabled = 0]
        ELSE [st2 EXCEPT !.pwm_enabled = 1]

\* heater_set_temp(id, target): the whole call
heater_set_temp(id, target_in) ==
    LET st  == s_heater_state[id]
        stn == heater_set_temp_state(st, target_in)
        ch  == s_heater_pwm_channel[id]
        off == stn.target_temp <= 0
        en  == ~off /\ st.pwm_enabled = 0
        tm  == IF en THEN pwm_enable_timer(s_soft_pwm_enabled, sched, 1, now)
                     ELSE <<s_soft_pwm_enabled, sched>>
    IN  /\ s_heater_state' = [s_heater_state EXCEPT ![id] = stn]
        /\ s_pwm_channels' =
              IF off THEN pwm_enable(heater_set_pwm(s_pwm_channels, id, 0), ch, 0)
              ELSE IF en THEN pwm_enable(s_pwm_channels, ch, 1)
              ELSE s_pwm_channels
        /\ s_soft_pwm_enabled' = tm[1]
        /\ sched' = tm[2]

HeaterSetTemp ==
    /\ ~halted
    /\ \E id \in Heaters : \E t \in TargetInputs[id] : heater_set_temp(id, t)
    /\ UNCHANGED <<now, s_shutdown_flag, halted, adc_pin, fanVars, driverVars, toolVars,
                   gcodeVars,
                   hostVars>>

\* the environment: a heater's ADC channel delivers another sample
AdcChange ==
    /\ \E h \in Heaters : \E v \in AdcInputs[h] :
          /\ v # adc_pin[h]
          /\ adc_pin' = [adc_pin EXCEPT ![h] = v]
    /\ UNCHANGED <<schedVars, pwmVars, s_heater_state, fanVars, driverVars, toolVars,
                   gcodeVars,
                   hostVars>>

\* samples around the targets of TargetInputs: adc_read error, 200.0, 197.0
\* and 196.8 degC for the hotend; 60.0 and 20.0 degC and a value above
\* ADC_MAX_VALUE for the bed
AtTargetAdcInputs ==
    [h \in Heaters |-> IF h = HEATER_HOTEND THEN {-1, 311, 334, 335}
                                            ELSE {2379, 2918, 4096}]

\* the environment: a sample near the target
AdcNearTarget ==
    /\ \E h \in Heaters : \E v \in AtTargetAdcInputs[h] :
          /\ v # adc_pin[h]
          /\ adc_pin' = [adc_pin EXCEPT ![h] = v]
    /\ UNCHANGED <<schedVars, pwmVars, s_heater_state, fanVars, driverVars,
                   toolVars, gcodeVars, hostVars>>

MaxQueries == 3

\* heater_is_at_target(id): heater_get_temp reads the ADC and stores a valid
\* temperature; the result is recorded in at_target
HeaterIsAtTarget ==
    /\ ~halted
    /\ at_target.calls < MaxQueries
    /\ \E id \in Heaters :
          /\ s_heater_state' =
                [s_heater_state EXCEPT
                    ![id] = heater_get_temp_state(@, adc_pin[id])]
          /\ at_target' =
                [calls |-> at_target.calls + 1, id |-> id,
                 ret |-> heater_is_at_target(s_heater_state[id], adc_pin[id])]
    /\ UNCHANGED <<schedVars, pwmVars, adc_pin, fanVars, driverVars, toolVars,
                   gcodeVars, lineVars, fan_request, th_call>>

NextAtTarget ==
    \/ HeaterIsAtTarget
    \/ HeaterSetTemp
    \/ AdcNearTarget

SpecAtTarget == Init /\ [][NextAtTarget]_vars

(* ------------------------ fatal conditions ----------------------------- *)

\* sched_shutdown(reason): only the flag (and the reason) is written
SchedShutdown ==
    /\ ~halted
    /\ s_shutdown_flag = 0
    /\ s_shutdown_flag' = 1
    /\ UNCHANGED <<now, sched, halted, pwmVars, heaterVars, fanVars, driverVars, toolVars,
                   gcodeVars,
                   hostVars>>

\* panic(msg): interrupts off, the message, then for(;;)
Panic ==
    /\ ~halted
    /\ halted' = TRUE
    /\ UNCHANGED <<now, sched, s_shutdown_flag, pwmVars, heaterVars, fanVars,
                   driverVars, toolVars,
                   gcodeVars,
                   hostVars>>

\* main(): the loop sees sched_is_shutdown(), breaks and waits in wfi
MainHalt ==
    /\ ~halted
    /\ s_shutdown_flag = 1
    /\ halted' = TRUE
    /\ UNCHANGED <<now, sched, s_shutdown_flag, pwmVars, heaterVars, fanVars,
                   driverVars, toolVars,
                   gcodeVars,
                   hostVars>>

NextHeater ==
    \/ HeaterTask
    \/ HeaterSetTemp
    \/ AdcChange
    \/ SchedShutdown
    \/ Panic
    \/ MainHalt

SpecHeater == Init /\ [][NextHeater]_vars

(* ------------------------ driver operations ---------------------------- *)

\* how far the clock may run ahead of the earliest timer before sched_main is
\* called again
MaxLag == 2

\* callbacks one sched_main call may run before it counts as not returning
MaxDispatch == 6

\* moves handed to stepper_add_move: step interval in clock units, step count
MoveIntervals == {1}
MaxCount == 2
\* |position| the model lets a stepper reach
MaxPos == 1
\* the axes the driver-level operations are exercised on
DriverSteppers == {STEPPER_X}
DriverEndstops == {ENDSTOP_X}

\* the driver state sched_main and its callbacks work on
DriverState ==
    [sched |-> sched, steppers |-> s_steppers, endstops |-> s_endstops,
     home_triggered |-> s_home_ctx.triggered, seen |-> endstop_seen]

\* timer_read_time() advances by one clock unit
Tick ==
    /\ ~sched.hung
    /\ IF sched.list = NULL \/ s_shutdown_flag = 1 THEN TRUE
       ELSE sched_time_diff(now, sched.waketime[sched.list]) < MaxLag
    /\ now' = (now + 1) % TimeMod
    /\ UNCHANGED <<sched, s_shutdown_flag, halted, pwmVars, heaterVars,
                   fanVars, driverVars, toolVars,
                   gcodeVars,
                   hostVars>>

\* sched_main() called from the main loop
SchedMain ==
    /\ ~halted /\ ~sched.hung
    /\ s_shutdown_flag = 0
    /\ LET D == sched_main_loop(DriverState, now, gpio_in, MaxDispatch)
       IN  /\ sched' = D.sched
           /\ s_steppers' = D.steppers
           /\ s_endstops' = D.endstops
           /\ s_home_ctx' = [s_home_ctx EXCEPT !.triggered = D.home_triggered]
           /\ endstop_seen' = D.seen
    /\ UNCHANGED <<now, s_shutdown_flag, halted, pwmVars, heaterVars,
                   fanVars, gpio_in, toolVars,
                   gcodeVars,
                   hostVars>>

\* stepper_add_move(id, move)
stepper_add_move(id, interval, count, dir) ==
    LET ST1 == [s_steppers EXCEPT ![id].interval = interval,
                                  ![id].count = count]
        ST2 == stepper_set_dir(ST1, id, IF dir >= 0 THEN STEPPER_DIR_FORWARD
                                                    ELSE STEPPER_DIR_BACKWARD)
        t   == (now + interval) % TimeMod
    IN  IF s_steppers[id].configured = 0
        THEN UNCHANGED <<s_steppers, sched>>
        ELSE /\ s_steppers' = [ST2 EXCEPT ![id].next_step_time = t]
             /\ sched' = sched_add_timer(
                             [sched EXCEPT !.waketime["stepper"] = t],
                             "stepper")

StepperAddMove ==
    /\ ~halted /\ ~sched.hung
    /\ \E id \in DriverSteppers, interval \in MoveIntervals,
          count \in 1..MaxCount, dir \in {-1, 1} :
          /\ s_steppers[id].configured = 1
          /\ s_steppers[id].position + dir * count \in (-MaxPos)..MaxPos
          /\ stepper_add_move(id, interval, count, dir)
    /\ UNCHANGED <<now, s_shutdown_flag, halted, pwmVars, heaterVars, fanVars,
                   s_endstops, gpio_in, s_home_ctx, endstop_seen, toolVars,
                   gcodeVars,
                   hostVars>>

\* endstop_set_callback(id, home_endstop_callback, NULL); endstop_home_start(id)
EndstopHomeStart ==
    /\ ~halted /\ ~sched.hung
    /\ \E id \in DriverEndstops, cb \in {home_endstop_callback} :
          /\ s_endstops[id].configured = 1
          /\ s_endstops[id].homing = 0
          /\ s_endstops' =
                endstop_home_start(endstop_set_callback(s_endstops, id, cb), id)
    /\ UNCHANGED <<schedVars, pwmVars, heaterVars, fanVars, s_steppers,
                   gpio_in, s_home_ctx, endstop_seen, toolVars,
                   gcodeVars,
                   hostVars>>

\* endstop_home_end(id)
EndstopHomeEnd ==
    /\ ~halted /\ ~sched.hung
    /\ \E id \in DriverEndstops :
          /\ s_endstops[id].homing = 1
          /\ s_endstops' = endstop_home_end(s_endstops, id)
    /\ UNCHANGED <<schedVars, pwmVars, heaterVars, fanVars, s_steppers,
                   gpio_in, s_home_ctx, endstop_seen, toolVars,
                   gcodeVars,
                   hostVars>>

\* the environment: the switch on a configured endstop's pin opens or closes
GpioChange ==
    /\ \E e \in DriverEndstops :
          /\ s_endstops[e].configured = 1
          /\ gpio_in' = [gpio_in EXCEPT ![e] = 1 - gpio_in[e]]
    /\ UNCHANGED <<schedVars, pwmVars, heaterVars, fanVars, s_steppers,
                   s_endstops, s_home_ctx, endstop_seen, toolVars,
                   gcodeVars,
                   hostVars>>

NextDriver ==
    \/ Tick
    \/ SchedMain
    \/ StepperAddMove
    \/ EndstopHomeStart
    \/ EndstopHomeEnd
    \/ GpioChange

SpecDriver == Init /\ [][NextDriver]_vars

\* the drivers from any boot time on, the main loop calling sched_main
NextBoot ==
    \/ Tick
    \/ SchedMain
    \/ EndstopHomeStart
    \/ EndstopHomeEnd
    \/ GpioChange

SpecBoot == InitBoot /\ [][NextBoot]_vars

(* ------------------------ the scheduler alone -------------------------- *)

\* how far ahead of the clock (in clock units) a timer is registered
MaxAhead == 1

\* the timers reached from s_timer_list along the next links, in order; the
\* walk is cut after one link more than there are timers
RECURSIVE timer_chain(_, _, _)
timer_chain(S, cur, fuel) ==
    IF cur = NULL \/ fuel = 0 THEN <<>>
    ELSE <<cur>> \o timer_chain(S, S.next[cur], fuel - 1)

TimerList == timer_chain(sched, sched.list, Cardinality(Timers) + 1)

\* timer->waketime = sched_get_time() + ahead; sched_add_timer(timer), for a
\* timer that is not in the list
SchedAddTimer ==
    /\ ~halted /\ ~sched.hung
    /\ \E t \in Timers, ahead \in 0..MaxAhead :
          /\ \A i \in 1..Len(TimerList) : TimerList[i] # t
          /\ sched' = sched_add_timer(
                          [sched EXCEPT !.waketime[t] = (now + ahead) % TimeMod],
                          t)
    /\ UNCHANGED <<now, s_shutdown_flag, halted, pwmVars, heaterVars, fanVars,
                   driverVars, toolVars, gcodeVars, hostVars>>

\* sched_del_timer(timer)
SchedDelTimer ==
    /\ ~halted /\ ~sched.hung
    /\ \E t \in Timers : sched' = sched_del_timer(sched, t)
    /\ UNCHANGED <<now, s_shutdown_flag, halted, pwmVars, heaterVars, fanVars,
                   driverVars, toolVars, gcodeVars, hostVars>>

NextSched == Tick \/ SchedMain \/ SchedAddTimer \/ SchedDelTimer

SpecSched == Init /\ [][NextSched]_vars

(* ------------------- interrupt state at timer writes ------------------- *)

\* is timer reached from S.list along the next links
timer_listed(S, timer) ==
    LET l == timer_chain(S, S.list, Cardinality(Timers) + 1)
    IN  \E i \in 1..Len(l) : l[i] = timer

\* The accesses to timer objects and the callback invocation of one call,
\* in program order: the timer, what is touched ("waketime", "next", the
\* callback "func"), whether interrupts are disabled (between sched_irq_save
\* and sched_irq_restore) and whether the timer is in the list at that point.

\* sched_add_timer(timer) on the scheduler state S: the link under irq_save
sched_add_timer_writes(S, timer) ==
    << [timer |-> timer, field |-> "next", irq_off |-> TRUE,
        listed |-> timer_listed(S, timer)] >>

\* stepper_add_move: s_stepper_timer.waketime is written before
\* sched_add_timer is entered
stepper_add_move_writes(S) ==
    << [timer |-> "stepper", field |-> "waketime", irq_off |-> FALSE,
        listed |-> timer_listed(S, "stepper")] >>
    \o sched_add_timer_writes(S, "stepper")

\* sched_main, the first timer it dispatches: unlinked under irq_save, the
\* callback and the write of the returned waketime after sched_irq_restore
sched_main_writes(S, t_now) ==
    LET timer == S.list
    IN  IF timer = NULL THEN <<>>
        ELSE IF ~sched_is_before(S.waketime[timer], t_now) THEN <<>>
        ELSE LET S1 == [S EXCEPT !.list = S.next[timer], !.next[timer] = NULL]
                 still == timer_listed(S1, timer)
             IN  << [timer |-> timer, field |-> "next", irq_off |-> TRUE,
                     listed |-> TRUE],
                    [timer |-> timer, field |-> "func", irq_off |-> FALSE,
                     listed |-> still],
                    [timer |-> timer, field |-> "waketime", irq_off |-> FALSE,
                     listed |-> still] >>

\* stepper_stop(id): the two stores, made without sched_irq_save
stepper_stop_writes(id) ==
    << [stepper |-> id, field |-> "count", irq_off |-> FALSE],
       [stepper |-> id, field |-> "interval", irq_off |-> FALSE] >>

\* stepper_set_dir(id, dir): the gpio_out_write calls on the direction pin
\* of a stepper in state st (invert_dir is 0 in every configuration)
stepper_set_dir_writes(st, dir) ==
    IF st.configured = 0 THEN <<>>
    ELSE << [pin |-> "dir_pin",
             value |-> IF dir = STEPPER_DIR_FORWARD THEN 0 ELSE 1] >>

\* stepper_add_move(id, move): its writes to the direction pin, made before
\* the timer is armed
stepper_add_move_dir_writes(st, dir) ==
    IF st.configured = 0 THEN <<>>
    ELSE stepper_set_dir_writes(st, IF dir >= 0 THEN STEPPER_DIR_FORWARD
                                                 ELSE STEPPER_DIR_BACKWARD)

(* ------------------------ toolhead operations -------------------------- *)

\* the toolhead state the functions of toolhead.c work on
ToolheadState ==
    [commanded |-> s_commanded_pos, current |-> s_current_pos,
     lookahead |-> s_lookahead, trapq |-> s_trapq,
     print_time |-> s_print_time, min_pos |-> s_min_pos]

\* the toolhead state T written back
toolhead_store(T) ==
    /\ s_commanded_pos' = T.commanded
    /\ s_current_pos' = T.current
    /\ s_lookahead' = T.lookahead
    /\ s_trapq' = T.trapq
    /\ s_print_time' = T.print_time
    /\ s_min_pos' = T.min_pos

\* X targets handed to toolhead_move: two inside the limits, one beyond X_MAX
MoveTargets == {0, 10, 300}
\* speed handed to toolhead_move, mm/s
MoveSpeed == 50
\* print time (ms) up to which the model accepts further moves
MaxPrintTime == 9000

\* toolhead_move(&pos, speed) with pos = the commanded position but for X
ToolheadMove ==
    /\ s_print_time < MaxPrintTime
    /\ \E x \in MoveTargets :
          LET r == toolhead_move(ToolheadState,
                                 [s_commanded_pos EXCEPT !.x = x], MoveSpeed)
          IN  toolhead_store(r[1]) /\ th_ret' = r[2]
    /\ th_call' = "toolhead_move"
    /\ UNCHANGED <<schedVars, pwmVars, heaterVars, fanVars, driverVars,
                   gcodeVars, lineVars, fan_request, at_target>>

\* toolhead_flush()
ToolheadFlush ==
    /\ toolhead_store(toolhead_flush(ToolheadState))
    /\ th_call' = "toolhead_flush"
    /\ UNCHANGED <<schedVars, pwmVars, heaterVars, fanVars, driverVars, th_ret,
                   gcodeVars, lineVars, fan_request, at_target>>

\* toolhead_wait_moves()
ToolheadWaitMoves ==
    /\ toolhead_store(toolhead_wait_moves(ToolheadState))
    /\ th_call' = "toolhead_wait_moves"
    /\ UNCHANGED <<schedVars, pwmVars, heaterVars, fanVars, driverVars, th_ret,
                   gcodeVars, lineVars, fan_request, at_target>>

NextToolhead == ToolheadMove \/ ToolheadFlush \/ ToolheadWaitMoves

SpecToolhead == Init /\ [][NextToolhead]_vars

(* ------------------- the planner under short moves --------------------- *)

\* lengths (mm) of the moves along X and the speed (mm/s) they ask for: the
\* moves are too short to reach the speed
PlanSteps == {1}
PlanSpeed == 200
\* print time (ms) up to which the planner spec accepts further calls
PlanMaxTime == 100
\* the X position at which the host calls toolhead_set_position
PlanResetAt == 5

\* toolhead_set_position(p_pos)
toolhead_set_position(T, p_pos) ==
    [T EXCEPT !.current = p_pos, !.commanded = p_pos]

\* toolhead_move(&pos, PlanSpeed) with pos one step further along X
PlannerMove ==
    /\ s_print_time < PlanMaxTime
    /\ \E dx \in PlanSteps :
          LET r == toolhead_move(ToolheadState,
                                 [s_commanded_pos EXCEPT !.x = @ + dx],
                                 PlanSpeed)
          IN  toolhead_store(r[1]) /\ th_ret' = r[2]
    /\ th_call' = "toolhead_move"
    /\ UNCHANGED <<schedVars, pwmVars, heaterVars, fanVars, driverVars,
                   gcodeVars, lineVars, fan_request, at_target>>

\* toolhead_set_position(&pos) with X = 0
ToolheadSetPosition ==
    /\ s_commanded_pos.x = PlanResetAt
    /\ toolhead_store(toolhead_set_position(
                          ToolheadState, [s_commanded_pos EXCEPT !.x = 0]))
    /\ th_call' = "toolhead_set_position"
    /\ UNCHANGED <<schedVars, pwmVars, heaterVars, fanVars, driverVars, th_ret,
                   gcodeVars, lineVars, fan_request, at_target>>

NextPlanner ==
    PlannerMove \/ ToolheadSetPosition \/ ToolheadFlush \/ ToolheadWaitMoves

SpecPlanner == Init /\ [][NextPlanner]_vars

(* ------------------------ the firmware main loop ----------------------- *)

\* lines the host sends in one run
MaxLines == 2

\* the endstop of an axis
AxisEndstop == [x |-> ENDSTOP_X, y |-> ENDSTOP_Y, z |-> ENDSTOP_Z]

\* sched_main() on the driver state D
sched_main(D) ==
    IF s_shutdown_flag = 1 THEN D
    ELSE sched_main_loop(D, now, gpio_in, MaxDispatch)

\* the driver state D written back, all but the homing context
driver_store(D) ==
    /\ sched' = D.sched
    /\ s_steppers' = D.steppers
    /\ s_endstops' = D.endstops
    /\ endstop_seen' = D.seen

\* main(): sched_main()
MainSchedMain ==
    /\ pc = "sched_main" /\ ~halted /\ ~sched.hung
    /\ \E D \in {sched_main(DriverState)} :
           /\ driver_store(D)
           /\ s_home_ctx' = [s_home_ctx EXCEPT !.triggered = D.home_triggered]
    /\ pc' = "gcode_process"
    /\ UNCHANGED <<now, s_shutdown_flag, halted, pwmVars, heaterVars, fanVars,
                   gpio_in, toolVars, home_locals, s_pos, s_feedrate,
                   s_coord_mode, last_cmd, response, lines_done,
                   hostVars>>

\* gcode_process(): serial_readline has no complete line
GcodeProcessNoLine ==
    /\ pc = "gcode_process" /\ ~halted
    /\ pc' = "shutdown_check"
    /\ UNCHANGED <<schedVars, pwmVars, heaterVars, fanVars, driverVars,
                   toolVars, home_locals, s_pos, s_feedrate, s_coord_mode,
                   last_cmd, response, lines_done,
                   hostVars>>

\* what the caller's four floats can hold after toolhead_get_position when
\* the callee, defined with (struct coord *), did not fill them as floats
GarbagePositions == {coord_clear}

\* execute_g0_g1(p_cmd): move_outcome and pos_outcome say how its calls of
\* toolhead_move and toolhead_get_position come out
execute_g0_g1(cmd, move_outcome, pos_outcome) ==
    \E pos \in IF pos_outcome = "coord" THEN {s_commanded_pos}
               ELSE GarbagePositions :
       LET target   == g0_g1_target(cmd, pos, s_coord_mode)
           feedrate == IF has(cmd, "f") THEN param(cmd, "f") ELSE s_feedrate
           r == gcode_toolhead_move(ToolheadState, target, feedrate \div 60,
                                    move_outcome)
       IN  /\ toolhead_store(r[1])
           /\ th_ret' = r[2]
           /\ s_feedrate' = feedrate
           /\ s_pos' = target

\* gcode_process(): a G0/G1 line; gcode_execute -> execute_g0_g1, then
\* gcode_respond
GcodeProcessMove ==
    /\ pc = "gcode_process" /\ ~halted
    /\ lines_done < MaxLines
    /\ \E cmd \in GcodeInputs, outcome \in BridgeOutcomes,
          pos_outcome \in BridgeOutcomes :
          /\ cmd.cmd = "G" /\ cmd.code \in {0, 1}
          /\ execute_g0_g1(cmd, outcome, pos_outcome)
          /\ last_cmd' = cmd
    /\ response' = "ok"
    /\ lines_done' = lines_done + 1
    /\ pc' = "shutdown_check"
    /\ UNCHANGED <<schedVars, pwmVars, heaterVars, fanVars, driverVars,
                   home_locals, s_coord_mode,
                   hostVars>>

\* gcode_process(): an M104 or M109 line; execute_m109's wait loop is
\* while (!heater_is_at_target(HEATER_HOTEND)) { break; }
GcodeProcessHeater ==
    /\ pc = "gcode_process" /\ ~halted
    /\ lines_done < MaxLines
    /\ \E cmd \in GcodeInputs :
          /\ cmd.cmd = "M" /\ cmd.code \in {104, 109}
          /\ IF has(cmd, "s")
             THEN heater_set_temp(HEATER_HOTEND, param(cmd, "s"))
             ELSE UNCHANGED <<s_heater_state, s_pwm_channels,
                              s_soft_pwm_enabled, sched>>
          /\ last_cmd' = cmd
    /\ response' = "ok"
    /\ lines_done' = lines_done + 1
    /\ pc' = "shutdown_check"
    /\ UNCHANGED <<now, s_shutdown_flag, halted, adc_pin, fanVars, driverVars,
                   toolVars, home_locals, s_pos, s_feedrate, s_coord_mode,
                   hostVars>>

\* toolhead_home(axes_mask) up to its wait loop: <<toolhead, endstops>>
toolhead_home_begin(T, ES, axes_mask) ==
    LET T0 == toolhead_wait_moves(T)
        ES1 == [e \in Endstops |->
                  IF \E a \in axes_mask : AxisEndstop[a] = e
                  THEN endstop_home_start(
                           endstop_set_callback(ES, e, home_endstop_callback),
                           e)[e]
                  ELSE ES[e]]
        home_target == [a \in DOMAIN T0.commanded |->
                          IF a \in axes_mask THEN T0.min_pos[a] - 10
                          ELSE T0.commanded[a]]
        T1 == [T0 EXCEPT !.min_pos = [a \in Axes |-> NO_LIMIT]]
        r  == toolhead_move(T1, home_target, HOMING_SPEED * 2)
    IN  <<toolhead_flush(r[1]), ES1, T0.min_pos>>

\* gcode_process(): a G28 line; execute_g28 -> toolhead_home, which reaches
\* its wait loop
GcodeProcessHome ==
    /\ pc = "gcode_process" /\ ~halted
    /\ lines_done < MaxLines
    /\ \E cmd \in GcodeInputs :
          /\ cmd.cmd = "G" /\ cmd.code = 28
          /\ \E b \in {toolhead_home_begin(ToolheadState, s_endstops,
                                              g28_axes_mask(cmd))} :
                 /\ toolhead_store(b[1])
                 /\ s_endstops' = b[2]
                 /\ home_locals' =
                       [timeout_time |-> b[1].print_time + HOMING_TIMEOUT,
                        saved_min |-> b[3]]
          /\ s_home_ctx' = [state |-> HOME_STATE_FAST,
                            axis_mask |-> g28_axes_mask(cmd),
                            triggered |-> 0]
          /\ last_cmd' = cmd
    /\ response' = NULL
    /\ lines_done' = lines_done + 1
    /\ pc' = "home_wait"
    /\ UNCHANGED <<schedVars, pwmVars, heaterVars, fanVars, s_steppers,
                   gpio_in, endstop_seen, th_ret, s_pos, s_feedrate,
                   s_coord_mode,
                   hostVars>>

\* toolhead_home: the condition of its wait loop
home_wait_cond ==
    s_home_ctx.triggered = 0 /\ s_print_time < home_locals.timeout_time

\* toolhead_home: one pass of the wait loop's body
HomeWaitIter ==
    /\ pc = "home_wait" /\ ~halted /\ ~sched.hung
    /\ home_wait_cond
    /\ \E D \in {sched_main([DriverState EXCEPT !.home_triggered =
                   IF \E a \in s_home_ctx.axis_mask :
                        endstop_is_triggered(s_endstops, AxisEndstop[a]) = 1
                   THEN 1 ELSE s_home_ctx.triggered])} :
           /\ driver_store(D)
           /\ s_home_ctx' = [s_home_ctx EXCEPT !.triggered = D.home_triggered]
    /\ UNCHANGED <<now, s_shutdown_flag, halted, pwmVars, heaterVars, fanVars,
                   gpio_in, toolVars, gcodeVars,
                   hostVars>>

\* toolhead_home after its wait loop:
\* <<toolhead, endstops, homing context, return value>>
toolhead_home_end(T, ES, ctx, saved_min) ==
    LET mask == ctx.axis_mask
        T0  == [T EXCEPT !.min_pos = saved_min]
        ESe == [e \in Endstops |->
                  IF \E a \in mask : AxisEndstop[a] = e
                  THEN endstop_home_end(ES, e)[e] ELSE ES[e]]
        retract_target == [a \in DOMAIN T0.commanded |->
                             IF a \in mask THEN HOMING_RETRACT
                             ELSE T0.commanded[a]]
        T1  == [T0 EXCEPT
                  !.commanded = [a \in DOMAIN @ |->
                                   IF a \in mask THEN 0 ELSE @[a]],
                  !.current   = [a \in DOMAIN @ |->
                                   IF a \in mask THEN 0 ELSE @[a]]]
        r   == toolhead_move(T1, retract_target, HOMING_SPEED)
        T2  == toolhead_wait_moves(toolhead_flush(r[1]))
    IN  IF ctx.triggered = 0
        THEN <<T0, ESe, [ctx EXCEPT !.state = HOME_STATE_ERROR],
               TOOLHEAD_ERR_HOMING>>
        ELSE <<T2, ESe, [ctx EXCEPT !.state = HOME_STATE_DONE,
                                    !.triggered = 0],
               TOOLHEAD_OK>>

\* toolhead_home leaves its wait loop and returns; execute_g28 zeroes the
\* homed axes of s_pos and returns 0; gcode_process responds
HomeFinish ==
    /\ pc = "home_wait" /\ ~halted /\ ~sched.hung
    /\ ~home_wait_cond
    /\ s_steppers' = [id \in Steppers |-> stepper_stop(s_steppers, id)[id]]
    /\ sched' = sched_del_timer(sched, "stepper")
    /\ \E e \in {toolhead_home_end(ToolheadState, s_endstops, s_home_ctx,
                                      home_locals.saved_min)} :
           /\ toolhead_store(e[1])
           /\ s_endstops' = e[2]
           /\ s_home_ctx' = e[3]
           /\ th_ret' = e[4]
    /\ s_pos' = [a \in DOMAIN s_pos |->
                    IF a \in s_home_ctx.axis_mask THEN 0 ELSE s_pos[a]]
    /\ response' = "ok"
    /\ pc' = "shutdown_check"
    /\ UNCHANGED <<now, s_shutdown_flag, halted, pwmVars, heaterVars, fanVars,
                   gpio_in, endstop_seen, home_locals, s_feedrate,
                   s_coord_mode, last_cmd, lines_done,
                   hostVars>>

\* main(): if (sched_is_shutdown()) break; after the loop, wfi for ever
MainShutdownCheck ==
    /\ pc = "shutdown_check" /\ ~halted
    /\ IF s_shutdown_flag = 1
       THEN halted' = TRUE /\ pc' = pc
       ELSE halted' = halted /\ pc' = "sched_main"
    /\ UNCHANGED <<now, sched, s_shutdown_flag, pwmVars, heaterVars, fanVars,
                   driverVars, toolVars, home_locals, s_pos, s_feedrate,
                   s_coord_mode, last_cmd, response, lines_done,
                   hostVars>>

\* the main thread: whatever main() does next
MainThread ==
    \/ MainSchedMain
    \/ GcodeProcessNoLine
    \/ GcodeProcessMove
    \/ GcodeProcessHeater
    \/ GcodeProcessHome
    \/ HomeWaitIter
    \/ HomeFinish
    \/ MainShutdownCheck

Next ==
    \/ MainThread
    \/ Tick
    \/ GpioChange
    \/ SchedShutdown
    \/ Panic

Spec == Init /\ [][Next]_vars

\* the firmware while the host sends nothing but G28 lines and no fatal
\* condition is raised
HomingThread ==
    \/ MainSchedMain
    \/ GcodeProcessNoLine
    \/ GcodeProcessHome
    \/ HomeWaitIter
    \/ HomeFinish
    \/ MainShutdownCheck

NextHoming ==
    \/ HomingThread
    \/ Tick
    \/ GpioChange

\* ENABLED <<HomingThread>>_vars written out: main() can always take its next
\* step, and the step changes the state unless it is a pass of the wait loop
\* in which sched_main finds nothing due
HomingThreadEnabled ==
    /\ ~halted /\ ~sched.hung
    /\ (pc = "home_wait" /\ home_wait_cond)
          => \/ sched_main(DriverState) # DriverState
             \/ \E a \in s_home_ctx.axis_mask :
                   endstop_is_triggered(s_endstops, AxisEndstop[a]) = 1

\* the hardware clock keeps counting (WF on Tick) and the processor keeps
\* executing main() (WF on HomingThread, with its ENABLED written out)
SpecHomingFair ==
    /\ Init /\ [][NextHoming]_vars
    /\ WF_vars(Tick)
    /\ ([]<>~HomingThreadEnabled \/ []<><<HomingThread>>_vars)

(* ------------------------ the G-code front end ------------------------- *)

\* lines gcode_process takes in one run of the front end
MaxFrontLines == 3

\* the lines the host sends, without their terminator: a bare terminator, a
\* comment, a blank line, a line that starts with another letter, G with no
\* code (alone and with a parameter), an unsupported code, and supported lines
HostLines ==
    {<<>>,
     <<";", "G", "9", "1">>,
     <<" ">>,
     <<"X", "1", "0", "0">>,
     <<"G">>,
     <<"G", " ", "X", "1", "0">>,
     <<"G", "5">>,
     <<"G", "9", "0">>,
     <<"G", "9", "1">>,
     <<"G", "1", " ", "X", "1", "0">>,
     <<"G", "1", " ", "Y", "1", "0">>,
     <<"G", "1", " ", "X", "3", "0", "0">>,
     <<"M", "1", "0", "6", " ", "S", "1", "2", "8">>,
     <<"M", "1", "0", "7">>,
     <<"M", "1", "1", "4">>}

\* fan ids handed to fan_set_speed: the two fans and FAN_COUNT, which is none
FanIds == Fans \cup {"FAN_COUNT"}
\* speeds handed to fan_set_speed, in 1/1000
FanSpeedInputs == {-500, 0, 1, 500, 1500}

\* fan_set_speed without its clamp of the speed
fan_set_speed_noclamp(id, speed_in) ==
    LET speed == speed_in
        ch == s_fan_pwm_channel[id]
        en == speed > 0 /\ s_fan_state[id].pwm_enabled = 0
        tm == IF en THEN pwm_enable_timer(s_soft_pwm_enabled, sched, 1, now)
                    ELSE <<s_soft_pwm_enabled, sched>>
    IN  /\ fan_request' = <<id, speed_in>>
        /\ IF id \notin Fans
           THEN UNCHANGED <<s_fan_state, s_pwm_channels, s_soft_pwm_enabled,
                            sched>>
           ELSE /\ s_fan_state' =
                      [s_fan_state EXCEPT
                          ![id].speed = speed,
                          ![id].pwm_enabled = IF speed <= 0 THEN 0 ELSE 1]
                /\ s_pwm_channels' =
                      IF speed <= 0
                      THEN pwm_enable(pwm_set_duty(s_pwm_channels, ch, 0), ch, 0)
                      ELSE pwm_set_duty(
                               IF en THEN pwm_enable(s_pwm_channels, ch, 1)
                                     ELSE s_pwm_channels,
                               ch, speed)
                /\ s_soft_pwm_enabled' = tm[1]
                /\ sched' = tm[2]

\* fan_set_speed(id, speed)
fan_set_speed(id, speed_in) ==
    LET speed == IF speed_in < 0 THEN 0
                 ELSE IF speed_in > 1000 THEN 1000 ELSE speed_in
        ch == s_fan_pwm_channel[id]
        en == speed > 0 /\ s_fan_state[id].pwm_enabled = 0
        tm == IF en THEN pwm_enable_timer(s_soft_pwm_enabled, sched, 1, now)
                    ELSE <<s_soft_pwm_enabled, sched>>
    IN  /\ fan_request' = <<id, speed_in>>
        /\ IF id \notin Fans
           THEN UNCHANGED <<s_fan_state, s_pwm_channels, s_soft_pwm_enabled,
                            sched>>
           ELSE /\ s_fan_state' =
                      [s_fan_state EXCEPT
                          ![id].speed = speed,
                          ![id].pwm_enabled = IF speed <= 0 THEN 0 ELSE 1]
                /\ s_pwm_channels' =
                      IF speed <= 0
                      THEN pwm_enable(pwm_set_duty(s_pwm_channels, ch, 0), ch, 0)
                      ELSE pwm_set_duty(
                               IF en THEN pwm_enable(s_pwm_channels, ch, 1)
                                     ELSE s_pwm_channels,
                               ch, speed)
                /\ s_soft_pwm_enabled' = tm[1]
                /\ sched' = tm[2]

\* execute_m106: the speed it hands to fan_set_speed, in 1/1000
execute_m106_speed(cmd) ==
    IF ~has(cmd, "s") THEN 1000
    ELSE IF param(cmd, "s") < 0 THEN 0
    ELSE IF param(cmd, "s") > 255 THEN 1000
    ELSE (param(cmd, "s") * 1000) \div 255

\* gcode_process: the response to a line gcode_parse_line gave ret for and,
\* when that was GCODE_OK, gcode_execute gave exec_ret for
gcode_response(ret, exec_ret) ==
    CASE ret = GCODE_OK ->
           IF exec_ret = GCODE_OK THEN "ok" ELSE "error: execution failed"
      [] ret = GCODE_ERR_EMPTY \/ ret = GCODE_ERR_COMMENT -> "ok"
      [] ret = GCODE_ERR_UNKNOWN -> "error: unknown command"
      [] ret = GCODE_ERR_INVALID -> "error: invalid command"
      [] OTHER -> "error: parse error"

\* gcode_process handing a G91 to gcode_execute for a rejected line
gcode_process_cmd_g91(p) ==
    IF p[1] = GCODE_OK THEN p[2] ELSE GcodeCmd("G", 91, {})

\* gcode_process: the command it hands to gcode_execute, none (the cleared
\* command) unless gcode_parse_line returned GCODE_OK
gcode_process_cmd(p) == IF p[1] = GCODE_OK THEN p[2] ELSE gcode_cmd_clear

\* the receive interrupt takes the bytes of one line and its terminator
HostSendLine ==
    /\ ~halted
    /\ s_line_ready = 0
    /\ lines_done < MaxFrontLines
    /\ \E l \in HostLines :
          LET L == serial_rx(<<s_line_buffer, s_line_ready>>, Append(l, "\n"))
          IN  /\ s_line_buffer' = L[1]
              /\ s_line_ready' = L[2]
              /\ host_line' = l
    /\ UNCHANGED <<schedVars, pwmVars, heaterVars, fanVars, driverVars,
                   toolVars, gcodeVars, gcode_line_buffer, parse_ret,
                   host_tx, fan_request, at_target, th_call>>

\* fan_set_speed(id, speed) called directly
FanSetSpeed ==
    /\ ~halted
    /\ \E id \in FanIds, speed \in FanSpeedInputs : fan_set_speed(id, speed)
    /\ UNCHANGED <<now, s_shutdown_flag, halted, heaterVars, driverVars,
                   toolVars, gcodeVars, s_line_buffer, s_line_ready,
                   gcode_line_buffer, parse_ret, host_line, host_tx,
                   at_target, th_call>>

\* gcode_execute(p_cmd): its return value (every execute_* returns 0)
gcode_execute_ret(cmd) ==
    IF is_supported_gcode(cmd.cmd, cmd.code) THEN GCODE_OK
    ELSE GCODE_ERR_UNKNOWN

\* gcode_process() with a line ready: serial_readline, gcode_parse_line,
\* gcode_execute for a G0/G1, G90, G91, M106, M107 or M114, gcode_respond
\* (G28, M104 and M109 lines are GcodeProcessHome's and GcodeProcessHeater's)
gcode_process_line ==
    /\ ~halted
    /\ s_line_ready = 1
    /\ LET line == serial_readline(s_line_buffer, GCODE_LINE_BUFFER_SIZE)
           p    == gcode_parse_line(line)
           cmd  == gcode_process_cmd(p)
       IN  /\ ~(cmd.cmd = "G" /\ cmd.code = 28)
           /\ ~(cmd.cmd = "M" /\ cmd.code \in {104, 109})
           /\ gcode_line_buffer' = line
           /\ parse_ret' = p[1]
           /\ last_cmd' = p[2]
           /\ response' = gcode_response(p[1], gcode_execute_ret(cmd))
           /\ IF cmd.cmd = "G" /\ cmd.code \in {0, 1}
              THEN /\ \E move_outcome \in BridgeOutcomes,
                         pos_outcome \in BridgeOutcomes :
                         execute_g0_g1(cmd, move_outcome, pos_outcome)
                   /\ UNCHANGED <<s_coord_mode, sched, pwmVars, fanVars,
                                  fan_request>>
              ELSE IF cmd.cmd = "G" /\ cmd.code \in {90, 91}
              THEN /\ s_coord_mode' = IF cmd.code = 90
                                      THEN GCODE_MODE_ABSOLUTE
                                      ELSE GCODE_MODE_RELATIVE
                   /\ UNCHANGED <<toolVars, s_pos, s_feedrate, sched, pwmVars,
                                  fanVars, fan_request>>
              ELSE IF cmd.cmd = "M" /\ cmd.code \in {106, 107}
              THEN /\ fan_set_speed(FAN_PART,
                                    IF cmd.code = 106
                                    THEN execute_m106_speed(cmd) ELSE 0)
                   /\ UNCHANGED <<toolVars, s_pos, s_feedrate, s_coord_mode>>
              ELSE UNCHANGED <<toolVars, s_pos, s_feedrate, s_coord_mode,
                               sched, pwmVars, fanVars, fan_request>>
    /\ s_line_buffer' = <<>>
    /\ s_line_ready' = 0
    /\ lines_done' = lines_done + 1
    /\ UNCHANGED <<now, s_shutdown_flag, halted, heaterVars, driverVars,
                   home_locals, host_line, host_tx, at_target, th_call>>

\* the same with the host sending one line at a time
GcodeProcessLine == gcode_process_line /\ UNCHANGED pc

NextFront ==
    \/ HostSendLine
    \/ GcodeProcessLine

SpecFront == Init /\ [][NextFront]_vars

\* the fan module driven by direct calls of fan_set_speed
NextFan ==
    \/ FanSetSpeed

SpecFan == Init /\ [][NextFan]_vars

(* ------------- the serial line: the host sends byte by byte ------------ *)

\* the lines the host sends, without their terminator
SerialLines == {<<"G", "9", "0">>, <<"G", "9", "1">>}
\* lines the host sends in all
MaxSerialLines == 3

\* the host starts the next line as soon as the previous one has left it,
\* without waiting for the response
HostStartLine ==
    /\ ~halted
    /\ host_tx.rest = <<>>
    /\ Len(host_tx.sent) < MaxSerialLines
    /\ \E l \in SerialLines :
          /\ host_line' = l
          /\ host_tx' = [host_tx EXCEPT !.rest = Append(l, "\n")]
    /\ UNCHANGED <<schedVars, pwmVars, heaterVars, fanVars, driverVars,
                   toolVars, gcodeVars, s_line_buffer, s_line_ready,
                   gcode_line_buffer, parse_ret, fan_request, at_target,
                   th_call>>

\* USARTx_IRQHandler with RXNE set: process_rx_byte on the next byte. It
\* runs between any two steps of the main thread, interrupts being enabled
\* everywhere but inside serial_readline's irq_disable .. irq_restore
UsartRx ==
    /\ ~halted
    /\ host_tx.rest # <<>>
    /\ LET L == process_rx_byte(<<s_line_buffer, s_line_ready>>,
                                Head(host_tx.rest))
       IN  /\ s_line_buffer' = L[1]
           /\ s_line_ready' = L[2]
    /\ host_tx' = [rest |-> Tail(host_tx.rest),
                   sent |-> IF Len(host_tx.rest) = 1
                            THEN Append(host_tx.sent, host_line)
                            ELSE host_tx.sent]
    /\ UNCHANGED <<schedVars, pwmVars, heaterVars, fanVars, driverVars,
                   toolVars, gcodeVars, gcode_line_buffer, parse_ret,
                   host_line, fan_request, at_target, th_call>>

\* gcode_process(): serial_line_available() returns 0
SerialNoLine ==
    /\ s_line_ready = 0
    /\ GcodeProcessNoLine

\* gcode_process(): serial_line_available() and serial_readline's own test
\* find s_line_ready set; irq_disable is not called yet
SerialLineReady ==
    /\ pc = "gcode_process" /\ ~halted
    /\ s_line_ready = 1
    /\ pc' = "serial_readline"
    /\ UNCHANGED <<schedVars, pwmVars, heaterVars, fanVars, driverVars,
                   toolVars, home_locals, s_pos, s_feedrate, s_coord_mode,
                   last_cmd, response, lines_done,
                   hostVars>>

\* serial_readline from irq_disable on, then the rest of gcode_process
SerialReadline ==
    /\ pc = "serial_readline"
    /\ gcode_process_line
    /\ pc' = "shutdown_check"

NextSerial ==
    \/ HostStartLine
    \/ UsartRx
    \/ MainSchedMain
    \/ SerialNoLine
    \/ SerialLineReady
    \/ SerialReadline
    \/ MainShutdownCheck

SpecSerial == Init /\ [][NextSerial]_vars

(* ------------------------ toolhead properties -------------------------- *)

\* the end time of the last segment the TrapQ holds
trapq_end(tq) ==
    IF Len(tq.moves) > 0 THEN move_end(tq.moves[Len(tq.moves)])
    ELSE IF Len(tq.history) > 0 THEN move_end(tq.history[Len(tq.history)])
    ELSE 0

\* C8: a move that toolhead_move accepted is never dropped: whenever the last
\* call returned TOOLHEAD_OK, the TrapQ holds the segment that ends at the
\* print time the planner has reached
C8_NoSilentDrop ==
    th_ret = TOOLHEAD_OK => trapq_end(s_trapq) = s_print_time

(* ------------------------ driver properties ---------------------------- *)

\* C2: when the polling task sees a homing endstop go from released to
\* triggered, the associated stepper has no pending steps left on entry to
\* the callback and after the poll; and a stepper with no pending steps
\* emits no pulse (its position does not change) until a move is added
C2_EndstopStopsStepper ==
    [][/\ \A e \in Endstops :
            (s_endstops[e].homing = 1 /\ s_endstops[e].triggered = 0
                                      /\ s_endstops'[e].triggered = 1)
            => /\ s_steppers'[s_endstops[e].stepper_id].count = 0
               /\ endstop_seen'[e][2] = 0
       /\ \A s \in Steppers :
            s_steppers[s].count = 0
            => s_steppers'[s].position = s_steppers[s].position]_vars

\* the X endstop triggered during homing while the X stepper still had steps
\* pending: they were cleared before the callback ran
C2_Witness ==
    /\ s_endstops[ENDSTOP_X].homing = 1
    /\ s_endstops[ENDSTOP_X].triggered = 1
    /\ endstop_seen[ENDSTOP_X][1] > 0
    /\ endstop_seen[ENDSTOP_X][2] = 0
    /\ s_steppers[STEPPER_X].count = 0
    /\ s_steppers[STEPPER_X].position # 0

(* ------------------------ heater properties ---------------------------- *)

Abs(x) == IF x < 0 THEN -x ELSE x

\* C1: on a heater tick, a heater whose temperature reading is invalid gets
\* PWM value 0 and its PID state (integral, prev_error) is left as it was,
\* whatever the other heater's reading is
C1_InvalidReadingForcesOff ==
    [][HeaterTask =>
         \A i \in Heaters :
            heater_get_temp(adc_pin[i]) = HEATER_TEMP_INVALID =>
               /\ s_pwm_channels'[s_heater_pwm_channel[i]].value = 0
               /\ s_heater_state'[i].integral = s_heater_state[i].integral
               /\ s_heater_state'[i].prev_error = s_heater_state[i].prev_error
               /\ s_heater_state'[i].output = s_heater_state[i].output]_vars

\* the hotend was driven at full power by the PID, its reading then became
\* invalid and the tick zeroed its PWM value (only the invalid-reading branch
\* leaves output at 1000 with value 0), while the bed is being driven
C1_Witness ==
    /\ heater_get_temp(adc_pin[HEATER_HOTEND]) = HEATER_TEMP_INVALID
    /\ s_heater_state[HEATER_HOTEND].output = 1000
    /\ s_heater_state[HEATER_HOTEND].prev_error # 0
    /\ s_pwm_channels[PWM_CHANNEL_HEATER_HOTEND].value = 0
    /\ heater_get_temp(adc_pin[HEATER_BED]) # HEATER_TEMP_INVALID
    /\ s_pwm_channels[PWM_CHANNEL_HEATER_BED].value > 0

\* C9: the PID output of every heater is within [0, max_power] and the
\* magnitude of its integral is at most PID_INTEGRAL_MAX (100 degC*s)
C9_PidBounded ==
    \A h \in Heaters :
       /\ s_heater_state[h].output >= 0
       /\ s_heater_state[h].output <= s_heater_config[h].max_power
       /\ Abs(s_heater_state[h].integral) <= PID_INTEGRAL_MAX

\* the integral clamp has acted: a heater sits at the integral limit after a
\* tick whose error no longer fits under it
C9_Witness ==
    \E h \in Heaters :
       /\ s_heater_state[h].integral = PID_INTEGRAL_MAX
       /\ s_heater_state[h].prev_error > 0
       /\ s_heater_state[h].target_temp > 0

\* C6: once the firmware has halted after sched_shutdown or panic, every
\* heater's PWM value is 0 and no stepper has pending steps
C6_OutputsOffAtHalt ==
    halted =>
       /\ \A h \in Heaters : s_pwm_channels[s_heater_pwm_channel[h]].value = 0
       /\ \A st \in Steppers : s_steppers[st].count = 0

(* ------------------------ firmware properties -------------------------- *)

\* C4: when the motion front end fails the motion command of a G-code line
\* (a G0/G1 beyond the axis limits, a G28 whose homing fails), the response
\* sent for that line is "error: execution failed"
C4_FailedMotionRespondsError ==
    (/\ lines_done > 0 /\ response # NULL
     /\ last_cmd.cmd = "G"
     /\ th_ret \in {TOOLHEAD_ERR_LIMIT, TOOLHEAD_ERR_HOMING})
    => response = "error: execution failed"

\* C5: a G0/G1 line whose toolhead_move call fails leaves the commanded
\* position, the lookahead queue, the TrapQ and the print time as they were,
\* and the position the G-code layer tracks does not advance either
C5_FailedMoveChangesNothing ==
    [][(/\ pc = "gcode_process" /\ lines_done' = lines_done + 1
        /\ last_cmd'.cmd = "G" /\ last_cmd'.code \in {0, 1}
        /\ th_ret' # TOOLHEAD_OK)
       => /\ UNCHANGED <<s_commanded_pos, s_lookahead, s_trapq, s_print_time>>
          /\ s_pos' = s_pos]_vars

\* C7: the "ok" of an M109 line is sent only once the hotend is at target
C7_M109OkOnlyAtTarget ==
    [][(/\ pc = "gcode_process" /\ lines_done' = lines_done + 1
        /\ last_cmd'.cmd = "M" /\ last_cmd'.code = 109
        /\ response' = "ok")
       => heater_is_at_target(s_heater_state'[HEATER_HOTEND],
                              adc_pin'[HEATER_HOTEND]) = 1]_vars

\* C10: after a G28 whose homing succeeded, the position the G-code layer
\* tracks agrees with the commanded position on every homed axis
C10_GcodePosAgreesAfterHome ==
    (/\ lines_done > 0 /\ response = "ok"
     /\ last_cmd.cmd = "G" /\ last_cmd.code = 28
     /\ th_ret = TOOLHEAD_OK)
    => \A a \in s_home_ctx.axis_mask : s_pos[a] = s_commanded_pos[a]

\* C3: a homing call does not wait for ever: from inside its wait loop it
\* comes to leave the loop, unless a selected endstop's switch closes
C3_HomingWaitEnds ==
    (pc = "home_wait")
      ~> (\/ pc # "home_wait"
          \/ \E a \in s_home_ctx.axis_mask : gpio_in[AxisEndstop[a]] = 1)

(* ------------------------ front-end properties ------------------------- *)

\* the step in which gcode_process takes a line
LineTaken == lines_done' = lines_done + 1 /\ s_line_ready = 1

\* C11: the response to a line is one of the five responses, and it is "ok"
\* exactly when the line was accepted (or was empty or a comment) and, for a
\* G0/G1, the move was carried out
C11_ResponseMatchesOutcome ==
    lines_done > 0 =>
      /\ response \in {"ok", "error: unknown command", "error: invalid command",
                       "error: execution failed", "error: parse error"}
      /\ response = "ok" <=>
           \/ parse_ret \in {GCODE_ERR_EMPTY, GCODE_ERR_COMMENT}
           \/ /\ parse_ret = GCODE_OK
              /\ (last_cmd.cmd = "G" /\ last_cmd.code \in {0, 1})
                    => th_ret = TOOLHEAD_OK

\* C12: an empty line or a comment line the host has sent is waiting to be
\* taken by gcode_process or has been answered with "ok"
C12_EmptyAndCommentAcked ==
    (host_line = <<>> \/ At(host_line) = ";") =>
       \/ s_line_ready = 1
       \/ lines_done > 0 /\ gcode_line_buffer = host_line /\ response = "ok"

\* a line whose first letter is not G or M, or whose G or M is not followed
\* by a digit (empty and comment lines apart)
NoCommandOnLine(line) ==
    LET p == skip_whitespace(line)
    IN  /\ At(p) \notin {NUL, "\n", "\r", ";"}
        /\ \/ toupper(At(p)) \notin {"G", "M"}
           \/ ~IsDigit(At(Tail(p)))

\* C13: a line with no command on it is answered "error: invalid command" and
\* nothing is executed for it
C13_NoCommandIsInvalid ==
    [][(LineTaken /\ NoCommandOnLine(gcode_line_buffer'))
       => /\ response' = "error: invalid command"
          /\ UNCHANGED <<toolVars, s_pos, s_feedrate, s_coord_mode, fanVars,
                         pwmVars>>]_vars

\* C14: a line gcode_parse_line rejects or classifies as empty or comment
\* leaves the coordinate mode, the feedrate, the commanded position, the
\* heater targets and the fan speeds as they were
C14_RejectedLineChangesNothing ==
    [][(LineTaken /\ parse_ret' # GCODE_OK)
       => /\ UNCHANGED <<s_coord_mode, s_feedrate, s_commanded_pos, s_pos>>
          /\ \A h \in Heaters :
               s_heater_state'[h].target_temp = s_heater_state[h].target_temp
          /\ \A f \in Fans : s_fan_state'[f].speed = s_fan_state[f].speed]_vars

C14_Witness ==
    /\ lines_done = 3 /\ parse_ret = GCODE_ERR_UNKNOWN
    /\ s_coord_mode = GCODE_MODE_RELATIVE
    /\ s_commanded_pos.x = 10

\* C15: after a G0/G1 whose move succeeded, the commanded position is the
\* prior one plus the deltas in relative mode, the coordinates given in
\* absolute mode, axes not named keeping their value
C15_MoveReachesTarget ==
    [][(/\ LineTaken /\ parse_ret' = GCODE_OK
        /\ last_cmd'.cmd = "G" /\ last_cmd'.code \in {0, 1}
        /\ th_ret' = TOOLHEAD_OK)
       => s_commanded_pos' =
             g0_g1_target(last_cmd', s_commanded_pos, s_coord_mode)]_vars

\* C16: the coordinate mode is absolute at first, a G90 line makes it
\* absolute, a G91 line relative, and no other line changes it
C16_ModeFollowsLastG90G91 ==
    /\ s_coord_mode = GCODE_MODE_ABSOLUTE
    /\ [][s_coord_mode' =
            IF LineTaken /\ gcode_line_buffer' = <<"G", "9", "0">>
            THEN GCODE_MODE_ABSOLUTE
            ELSE IF LineTaken /\ gcode_line_buffer' = <<"G", "9", "1">>
            THEN GCODE_MODE_RELATIVE
            ELSE s_coord_mode]_vars

C16_Witness ==
    /\ lines_done = 3 /\ s_coord_mode = GCODE_MODE_ABSOLUTE
    /\ gcode_line_buffer = <<"G", "9", "0">>
    /\ s_commanded_pos.x = 10


\* the step in which heater_is_at_target returns
AtTargetReturns == at_target'.calls = at_target.calls + 1

\* C17 as stated: heater_is_at_target(h) returns 1 exactly when the target is
\* at or below 0 or the heater's current temperature is within 3 degC of it
C17_AtTargetIffWithinTolerance ==
    [][AtTargetReturns =>
         LET st == s_heater_state'[at_target'.id]
         IN  (at_target'.ret = 1) <=>
                \/ st.target_temp <= 0
                \/ Abs(st.current_temp - st.target_temp) <= 30]_vars

\* C17 amended: the equivalence holds when the temperature reading is valid;
\* with an invalid reading heater_is_at_target(h) returns 1 only for a target
\* at or below 0, whatever the stored temperature
C17_AtTargetIffValidAndWithin ==
    [][AtTargetReturns =>
         LET st == s_heater_state'[at_target'.id]
             valid == heater_get_temp(adc_pin[at_target'.id])
                         # HEATER_TEMP_INVALID
         IN  (at_target'.ret = 1) <=>
                \/ st.target_temp <= 0
                \/ valid /\ Abs(st.current_temp - st.target_temp) <= 30]_vars

\* a reading exactly 3 degC below a 200 degC target was found at target
C17_Witness ==
    /\ at_target = [calls |-> 2, id |-> HEATER_HOTEND, ret |-> 1]
    /\ s_heater_state[HEATER_HOTEND].target_temp = 2000
    /\ s_heater_state[HEATER_HOTEND].current_temp = 1970
    /\ adc_pin[HEATER_HOTEND] = 334

\* C18: a heater's PWM channel is enabled exactly when its target is above 0,
\* and a heater whose target was set to 0 has output 0, duty 0, and a cleared
\* integral and previous error
C18_EnabledIffTargetSet ==
    \A h \in Heaters :
       LET st == s_heater_state[h]
           ch == s_pwm_channels[s_heater_pwm_channel[h]]
       IN  /\ (ch.enabled = 1) <=> (st.target_temp > 0)
           /\ st.target_temp <= 0 =>
                 /\ st.output = 0 /\ ch.value = 0
                 /\ st.integral = 0 /\ st.prev_error = 0

\* both heaters switched off again after the hotend was heated at full duty
C18_Witness ==
    /\ \A h \in Heaters : s_heater_state[h].target_temp = 0
    /\ s_soft_pwm_enabled = 1
    /\ s_heater_state[HEATER_HOTEND].current_temp = 1000
    /\ s_pwm_channels[PWM_CHANNEL_HEATER_HOTEND].enabled = 0

\* the speed fan_set_speed stores for a requested speed
ClampedSpeed(speed) ==
    IF speed < 0 THEN 0 ELSE IF speed > 1000 THEN 1000 ELSE speed

\* C19: the fan last named in a request has the requested speed clamped to
\* [0, 1]; every fan's channel is disabled with value 0 when its speed is 0
\* and enabled with the speed as its duty otherwise; a request with an
\* invalid fan id changes nothing
C19_FanFollowsRequest ==
    /\ [](fan_request # <<>> =>
           /\ fan_request[1] \in Fans =>
                s_fan_state[fan_request[1]].speed =
                   ClampedSpeed(fan_request[2])
           /\ \A f \in Fans :
                LET ch == s_pwm_channels[s_fan_pwm_channel[f]]
                    speed == s_fan_state[f].speed
                IN  IF speed = 0
                    THEN ch.enabled = 0 /\ ch.value = 0
                    ELSE /\ ch.enabled = 1
                         /\ ch.value = (speed * ch.max_value) \div 1000)
    /\ [][fan_request'[1] \notin Fans
            => UNCHANGED <<fanVars, pwmVars, sched>>]_vars

\* the part fan at half speed and the hotend fan stopped again, after a
\* request with an invalid id
C19_Witness ==
    /\ fan_request = <<"FAN_COUNT", 500>>
    /\ s_fan_state[FAN_PART].speed = 500
    /\ s_pwm_channels[PWM_CHANNEL_FAN_PART].value = 127
    /\ s_fan_state[FAN_HOTEND].speed = 0
    /\ s_soft_pwm_enabled = 1

\* C20: when toolhead_wait_moves has returned, the lookahead queue is empty,
\* the TrapQ holds no active move and toolhead_has_moves returns 0
C20_NoMovePendingAfterWait ==
    th_call = "toolhead_wait_moves" =>
       /\ s_lookahead = <<>>
       /\ trapq_has_moves(s_trapq) = 0
       /\ toolhead_has_moves(ToolheadState) = 0

(* ------------------------ thermistor table ----------------------------- *)

\* C21: a valid sample below the first or above the last table entry reads
\* as the temperature of that entry, and a sample below 0 or above
\* ADC_MAX_VALUE reads as HEATER_TEMP_INVALID
C21_OutsideTableClampsToEndpoint ==
    \A h \in Heaters :
       LET v == adc_pin[h]
           t == heater_get_temp(v)
       IN  /\ (v < 0 \/ v > ADC_MAX_VALUE) => t = HEATER_TEMP_INVALID
           /\ (0 <= v /\ v < s_ntc_table[1][1]) => t = s_ntc_table[1][2]
           /\ (s_ntc_table[NTC_TABLE_SIZE][1] < v /\ v <= ADC_MAX_VALUE)
                 => t = s_ntc_table[NTC_TABLE_SIZE][2]

\* C22: while main() runs its loop the heater tick keeps being executed: a
\* valid sample on a heater's ADC pin that differs from the stored current
\* temperature is eventually stored by heater_task
C22_HeaterTickRuns ==
    \A h \in Heaters :
       (/\ heater_get_temp(adc_pin[h]) # HEATER_TEMP_INVALID
        /\ s_heater_state[h].current_temp # heater_get_temp(adc_pin[h]))
       ~> (s_heater_state[h].current_temp = heater_get_temp(adc_pin[h]))


(* ------------------------------ the TrapQ ------------------------------ *)

\* the moves of a list, pairwise in list order
AdjacentInList(list) == {<<list[i], list[i + 1]>> : i \in 1..(Len(list) - 1)}

\* the pairs of moves adjacent in a TrapQ list
AdjacentMoves == AdjacentInList(s_trapq.moves) \cup AdjacentInList(s_trapq.history)

\* C23: of two adjacent moves in a TrapQ list, the first ends no later than
\* the second starts: print_time + move_t of the first is at most print_time
\* of the second
C23_AdjacentMovesInTimeOrder ==
    \A p \in AdjacentMoves : p[1].print_time + p[1].move_t <= p[2].print_time

\* two adjacent moves in the TrapQ after a set-position call between them
C23_Witness ==
    \E p \in AdjacentMoves :
       /\ p[1].move_t > 0
       /\ p[2].start_pos # p[1].end_pos

\* C24: for every pair of moves adjacent in the TrapQ, the end velocity the
\* first was planned with equals the start velocity of the second, also when
\* the first was emitted while the second was held back in the lookahead queue
C24_AdjacentVelocitiesMatch ==
    \A p \in AdjacentMoves : p[1].end_v = p[2].start_v

\* the moves a TrapQ holds
TrapqMoves ==
    {s_trapq.moves[i] : i \in 1..Len(s_trapq.moves)}
       \cup {s_trapq.history[i] : i \in 1..Len(s_trapq.history)}

\* the share of a move's distance the integral of its profile may be off by:
\* one part in ProfileTolerance, wide enough for the rounding to ms and mm/s
ProfileTolerance == 10

\* C25: for every move in the TrapQ, accel_t + cruise_t + decel_t is the
\* move's duration, and the stored velocity profile integrated over the
\* duration gives the move's distance (within the tolerance), also for moves
\* too short to reach the requested cruise velocity
C25_ProfileCoversDistance ==
    \A m \in TrapqMoves :
       LET d == 1000 * calc_move_distance(m.start_pos, m.end_pos)
           g == move_get_distance(m, MAX_ACCEL)
       IN  /\ m.accel_t + m.cruise_t + m.decel_t = m.move_t
           /\ (g - d) * ProfileTolerance <= d
           /\ (d - g) * ProfileTolerance <= d

\* the moves a step takes out of the lookahead queue and hands to
\* trapq_append: a toolhead_move that accepts its move first adds it
EmittedInStep ==
    Len(s_lookahead)
    + (IF th_call' = "toolhead_move" /\ s_commanded_pos' # s_commanded_pos
       THEN 1 ELSE 0)
    - Len(s_lookahead')

\* C26: the planner never appends to the TrapQ when all TRAPQ_MAX_MOVES
\* segments are in use: every move a call hands to trapq_append finds a free
\* segment (a call frees segments only after its appends)
C26_FreeSegmentAtEveryAppend ==
    [][pool_used(s_trapq) + EmittedInStep <= TRAPQ_MAX_MOVES]_vars

(* ---------------------------- the timer list --------------------------- *)

\* a is before b: the difference a - b, taken as a signed number of the
\* counter's width, is negative
WakesBefore(a, b) ==
    ((a - b + TimeMod \div 2) % TimeMod) - TimeMod \div 2 < 0

\* the place of timer t in the list l, 0 when it is not in it
PlaceIn(l, t) ==
    IF \E i \in 1..Len(l) : l[i] = t
    THEN CHOOSE i \in 1..Len(l) : l[i] = t
    ELSE 0

\* the timer list after the step
TimerListNext == timer_chain(sched', sched'.list, Cardinality(Timers) + 1)

\* no timer in the list wakes before the timer in front of it
TimerListSorted ==
    \A i \in 1..(Len(TimerList) - 1) :
       ~WakesBefore(sched.waketime[TimerList[i + 1]],
                    sched.waketime[TimerList[i]])

\* of two timers with equal wake times, one that was in the list before the
\* step with that wake time stays in front of one the step has inserted, and
\* two that were in the list keep their order
TiesInInsertionOrder ==
    \A u, v \in Timers :
       LET pu == PlaceIn(TimerList, u)
           pv == PlaceIn(TimerList, v)
           qu == PlaceIn(TimerListNext, u)
           qv == PlaceIn(TimerListNext, v)
           kept(t, p) == p > 0 /\ sched'.waketime[t] = sched.waketime[t]
       IN  (/\ u # v /\ qu > 0 /\ qv > 0
            /\ sched'.waketime[u] = sched'.waketime[v]
            /\ kept(u, pu))
           => IF kept(v, pv) THEN (qu < qv) = (pu < pv)
              ELSE qu < qv

TimerListIsChain ==
    /\ Len(TimerList) <= Cardinality(Timers)
    /\ \A i, j \in 1..Len(TimerList) : TimerList[i] = TimerList[j] => i = j

\* a timer that is in the list before a step and not after it was due (it
\* has fired); the steps of the driver cancel no timer
NoTimerLost ==
    \A t \in Timers :
       (PlaceIn(TimerList, t) > 0 /\ PlaceIn(TimerListNext, t) = 0)
          => sched_is_before(sched.waketime[t], now)

\* C28: after any sequence of operations, also a move added while the stepper
\* timer is pending, the timer list is a finite NULL-terminated chain holding
\* each timer at most once, and no registered timer leaves it except by
\* firing or by being cancelled
C28_TimerListWellFormed ==
    []TimerListIsChain /\ [][NoTimerLost]_vars

(* ------------------------- critical sections --------------------------- *)

\* every write to a field of a timer that is in the list is made with
\* interrupts disabled, and every callback is invoked with interrupts enabled
WritesProtected(writes) ==
    \A i \in 1..Len(writes) :
       IF writes[i].field = "func" THEN ~writes[i].irq_off
       ELSE writes[i].listed => writes[i].irq_off

\* C29: every mutation of the timer list, the writes to the link and the
\* wake-time field of a timer in the list included, is made with interrupts
\* disabled, and timer callbacks are invoked with interrupts enabled
C29_ListWritesInCriticalSection ==
    [][/\ StepperAddMove => WritesProtected(stepper_add_move_writes(sched))
       /\ SchedMain => WritesProtected(sched_main_writes(sched, now))]_vars

(* --------------------------- run-due calls ----------------------------- *)

\* the timers whose callback returns waketime plus a fixed period, and the
\* period (endstop_timer_callback, pwm_timer_callback)
PeriodicTimers == {"endstop", "pwm"}
TimerPeriod(t) ==
    IF t = "endstop" THEN ENDSTOP_SAMPLE_INTERVAL ELSE PWM_TICK_INTERVAL

\* how far a step moves the wake time of timer t
WakeAdvance(t) == (sched'.waketime[t] - sched.waketime[t]) % TimeMod

\* C30: a callback may return a wake time already in the past: the timer
\* then fires again on the next main-loop iteration, not again within the
\* same sched_main call, so one sched_main call moves the wake time of a
\* periodic timer by at most one period, and it returns
C30_PastWakeTimeWaitsForNextLoop ==
    [][MainSchedMain =>
          /\ ~sched'.hung
          /\ \A t \in PeriodicTimers :
                WakeAdvance(t) = 0 \/ WakeAdvance(t) = TimerPeriod(t)]_vars

(* --------------------------- endstop polling --------------------------- *)

\* C31: once started, the endstop polling task stays scheduled for as long
\* as the scheduler runs, also across the wraparound of the counter: the
\* wake time its callback returns is always honoured
C31_EndstopPollingGoesOn == timer_listed(sched, "endstop")

\* C32: the trigger action and the callback of an endstop fire once for each
\* 0-to-1 transition of its input and not again while the input stays at 1,
\* also when homing mode is started with the switch pressed: an endstop that
\* has fired (triggered = 1) is not re-armed while its input stays at 1
C32_OneFirePerRisingEdge ==
    [][\A e \in Endstops :
          (/\ s_endstops[e].triggered = 1
           /\ gpio_in[e] = 1 /\ gpio_in'[e] = 1)
          => s_endstops'[e].triggered = 1]_vars

\* C33: while no endstop is in homing mode, an endstop changing state stops
\* no stepper (stepper_stop clears the interval of a move) and changes no
\* homing state, also after an earlier homing has registered its callback
C33_EndstopIdleOutsideHoming ==
    [][(\A e \in Endstops : s_endstops[e].homing = 0)
       => /\ s_home_ctx' = s_home_ctx
          /\ \A st \in Steppers :
                s_steppers[st].interval # 0 => s_steppers'[st].interval # 0]_vars

(* ------------------------------- homing -------------------------------- *)

\* C34: when several axes are homed in one call, an axis is stopped and set
\* to 0 only after its own endstop has triggered: once a homing has
\* succeeded, the endstop of every homed axis has fired in homing mode
C34_AxisZeroedAfterOwnEndstop ==
    (s_home_ctx.state = HOME_STATE_DONE)
    => \A a \in s_home_ctx.axis_mask :
          endstop_seen[AxisEndstop[a]] # <<-1, -1>>

(* ------------------------- stopping a stepper -------------------------- *)

\* the poll of a homing endstop that calls stepper_stop on its stepper
StopCalledFor(e) ==
    /\ s_endstops[e].homing = 1
    /\ s_endstops[e].triggered = 0
    /\ s_endstops'[e].triggered = 1

MoveAdded(id, dir) ==
    /\ StepperAddMove
    /\ \E interval \in MoveIntervals, count \in 1..MaxCount :
          stepper_add_move(id, interval, count, dir)

MoveDir(dir) == IF dir >= 0 THEN STEPPER_DIR_FORWARD ELSE STEPPER_DIR_BACKWARD

\* every pulse goes the way the direction field, the copy of the pin, says
PulseFollowsDir ==
    \A s \in Steppers :
       /\ s_steppers'[s].position > s_steppers[s].position
             => s_steppers[s].dir = STEPPER_DIR_FORWARD
       /\ s_steppers'[s].position < s_steppers[s].position
             => s_steppers[s].dir = STEPPER_DIR_BACKWARD

\* C36: the direction pin is written before the first step pulse of a move
\* in a new direction, and it is written again only when the direction
\* changes, not for a move that keeps the current direction
C36_DirPinWrittenOnlyOnChange ==
    [][/\ PulseFollowsDir
       /\ \A id \in DriverSteppers, dir \in {-1, 1} :
             MoveAdded(id, dir)
             => LET w == stepper_add_move_dir_writes(s_steppers[id], dir)
                IN  /\ s_steppers'[id].dir = MoveDir(dir)
                    /\ s_steppers'[id].position = s_steppers[id].position
                    /\ (w # <<>>) <=> (s_steppers[id].dir # MoveDir(dir))]_vars

\* C36 as the code has it: every added move writes the direction pin once,
\* with the level of the move's direction and before any pulse of the move,
\* whether or not the direction changes
C36_DirPinWrittenOnEveryMove ==
    [][/\ PulseFollowsDir
       /\ \A id \in DriverSteppers, dir \in {-1, 1} :
             MoveAdded(id, dir)
             => LET w == stepper_add_move_dir_writes(s_steppers[id], dir)
                IN  /\ s_steppers'[id].dir = MoveDir(dir)
                    /\ s_steppers'[id].position = s_steppers[id].position
                    /\ Len(w) = 1
                    /\ w[1].value = (IF dir >= 0 THEN 0 ELSE 1)]_vars

\* a backward move was added and its pulse has moved the stepper backward
C36_Witness ==
    /\ s_steppers[STEPPER_X].dir = STEPPER_DIR_BACKWARD
    /\ s_steppers[STEPPER_X].position = -1
    /\ s_steppers[STEPPER_X].count = 0
    /\ s_steppers[STEPPER_X].interval # 0

(* --------------------------- the serial line --------------------------- *)

\* C37: from the test of the line-ready flag to the reset of length and
\* flag, serial_readline is serialized against the RX interrupt: a byte
\* received in between changes neither the buffered line nor the flag, and
\* the text handed over is exactly the buffered line
C37_HandoverSerialized ==
    [][/\ (pc = "serial_readline" /\ pc' = "serial_readline")
          => /\ s_line_buffer' = s_line_buffer
             /\ s_line_ready = 1 /\ s_line_ready' = 1
       /\ (pc = "serial_readline" /\ pc' # "serial_readline")
          => /\ gcode_line_buffer' = s_line_buffer
             /\ s_line_buffer' = <<>>
             /\ s_line_ready' = 0]_vars

\* the first line waits to be copied out, its flag already tested, while
\* two bytes of the second line have come in
C37_Witness ==
    /\ pc = "serial_readline"
    /\ Len(host_tx.sent) = 1
    /\ Len(host_tx.rest) = 2
    /\ s_line_buffer = host_tx.sent[1]

\* C38: every line the host has sent whole is delivered to the parser once,
\* unaltered and in order, or waits in the line buffer to be, also when the
\* next line starts to arrive before the previous one was read
C38_EveryLineDeliveredOnce ==
    /\ lines_done + s_line_ready = Len(host_tx.sent)
    /\ lines_done > 0 => gcode_line_buffer = host_tx.sent[lines_done]
    /\ s_line_ready = 1 => s_line_buffer = host_tx.sent[lines_done + 1]

(* --------------------------- the PWM clients --------------------------- *)

\* C39: fan_init, which runs after heater_init at boot, leaves the heaters'
\* PWM channels as heater_init configured them, so a heater whose target is
\* above 0 has a configured and enabled channel that the PWM timer drives
C39_HeaterPwmDriven ==
    \A h \in Heaters :
       s_heater_state[h].target_temp > 0
       => /\ s_pwm_channels[s_heater_pwm_channel[h]].configured = 1
          /\ s_pwm_channels[s_heater_pwm_channel[h]].enabled = 1

(* ------------------------ the PID anti-windup -------------------------- *)

\* pid_update: the output before it is limited to [0, 1], in 1/1000
pid_raw_output(st, params, current_temp) ==
    LET error    == st.target_temp - current_temp
        integral == pid_clamp_integral(st.integral + error)
    IN  params.kp * error + TruncDiv(params.ki * integral, 10)
        + params.kd * 10 * (error - st.prev_error)

\* the tick of heater h runs pid_update, its output saturates and the
\* error pushes further into the saturation
SaturatedTick(h) ==
    LET st   == s_heater_state[h]
        temp == heater_get_temp(adc_pin[h])
        raw  == pid_raw_output(st, s_heater_config[h], temp)
    IN  /\ HeaterTask
        /\ temp # HEATER_TEMP_INVALID
        /\ st.target_temp > 0
        /\ IF raw > 1000 THEN st.target_temp - temp > 0
           ELSE raw < 0 /\ st.target_temp - temp < 0

=============================================================================
